---- MODULE Spec2Model ----
(***************************************************************************)
(* A model of the declarative config engine of switchcraft                 *)
(* (mcp_network_switch): parser -> validator -> diff -> generator ->        *)
(* executor, the device scope (connect / disconnect), the fleet fan-out and *)
(* the git-versioned config store.                                          *)
(*                                                                         *)
(* Conventions.  A port identifier "u/m/p" is the tuple of its "/"-parts,   *)
(* <<u, m, p>>; the Zyxel-style identifier "5" is <<5>>.  A VLAN name is a  *)
(* tuple too: <<>> is None, <<"Prod">> a given name and <<"VLAN", id>> the  *)
(* default name f"VLAN{id}".  A device command is a record                  *)
(* [op, id, name, ranges]; ranges is the sequence of "start to end" tokens  *)
(* of the command.  Port lists are modelled as sets: the inputs carry no    *)
(* repeated token.                                                         *)
(***************************************************************************)
EXTENDS Integers, Sequences, FiniteSets, TLC

VARIABLES
    desired,        \* the DesiredState of the operation in progress
    live,           \* the VLAN table of the switch: id -> [present, name, untagged, tagged]
    live0,          \* the VLAN table when the plan was generated
    ctx,            \* the switch's CLI context: 0, or the id of the VLAN being configured
    queue,          \* the commands of the plan (of its pre-phase, in an apply) not yet sent
    walk,           \* plan walk: "idle", "run" or "done"
    op,             \* the ConfigEngine operation in progress: "none", "apply" or "diff"
    pc,             \* its position: "idle", "diff_connect", "diff_read", "exec_connect",
                    \* "exec_pre", "exec_main" or "done"
    config,         \* the config dict handed to apply_config
    dry_run,        \* the dry_run argument of apply_config
    diff_result,    \* <<>>, or <<the DiffResult the diff engine returned>>
    command_plan,   \* <<>>, or <<the CommandPlan handed to the executor>>
    result,         \* the ExecuteResult of the operation
    raised,         \* the operation ended with an exception instead of a result
    attempt,        \* failed attempts of the connect in progress
    opened,         \* the device scopes the operation has entered: "read", "write"
    sent,           \* the commands the operation has sent through device.execute
    again,          \* this apply repeats the desired state of the apply just before it
    faults,         \* the device has failed a connect, a read or a command of the operation
    telnet,         \* per device: "none" (_telnet is None) or "open" (_telnet holds a socket)
    connected,      \* per device: _connected
    taskDev,        \* fan-out: the device id of every task
    taskPc,         \* fan-out: "start", "inside", "exiting" or "done", per task
    taskTry,        \* fan-out: per task, the failed attempts of the call in progress or
                    \* just ended (connect, then execute)
    taskCalls,      \* fan-out: per task, the times the command reached the device and
                    \* the error answers the device gave
    taskResult,     \* fan-out: per task, <<>> or <<the dict run_on_device returned>>
    response,       \* fan-out: <<>>, or <<the results handle_batch_command returned>>
    options,        \* the ExecuteOptions handed to ConfigExecutor.execute
    device,         \* the class of the device object handed to the executor
    wire,           \* the plan's commands the device has received in the write scope, in order
    trace,          \* what the main phase of the executor went through
    cancelled,      \* the operation was cancelled (asyncio.CancelledError)
    working,        \* config store: the working-tree file of every device, or NoFile
    head,           \* config store: the file of every device in the tree of HEAD
    log,            \* config store: the commits after the initial one, oldest first
    clock,          \* config store: the time of the last save
    saves,          \* config store: the saves every device has had
    returned,       \* config store: what the last operation did and returned
    deleted,        \* config store: the devices whose file has been deleted at some time
    fn_call,        \* a function of the package called on its own: [fn, arg]
    fn_value        \* <<>>, or <<what the call returned>>

vars == <<desired, live, live0, ctx, queue, walk, op, pc, config, dry_run,
          diff_result, command_plan, result, raised, attempt, opened, sent,
          again, faults, telnet, connected, taskDev, taskPc, taskTry,
          taskCalls, taskResult, response,
          options, device, wire, trace, cancelled,
          working, head, log, clock, saves, returned, deleted,
          fn_call, fn_value>>

executorVars == <<options, device, wire, trace, cancelled>>

engineVars == <<op, pc, config, dry_run, diff_result, command_plan, result, raised,
                attempt, opened, sent, again, faults, executorVars>>

fanoutVars == <<taskDev, taskPc, taskTry, taskCalls, taskResult, response>>

storeVars == <<working, head, log, clock, saves, returned, deleted>>

unitVars == <<fn_call, fn_value>>

----------------------------------------------------------------------------
(* Bounds of the model *)

\* ports 1/1/1 .. 1/1/MaxPos exist on module 1 (module 2 carries 1/2/1)
MaxPos == 2
\* details of one scenario: memberships and names the desired state lists,
\* memberships the switch holds
MaxDetails == 2

(* Program constants *)
MinVlanId == 1
MaxVlanId == 4094

RESERVED_VLANS == {0, 4095}
PROTECTED_VLANS == {1}

----------------------------------------------------------------------------
(* Universes of the inputs *)

VlanIds == {1, 100}
BrocadePorts == {<<1, 1, p>> : p \in 1..MaxPos} \cup {<<1, 2, 1>>}
NoName == <<>>
DefaultName(id) == <<"VLAN", id>>
DesiredNames == {NoName, <<"Prod">>, <<"Old">>}

RECURSIVE SubsetsUpTo(_, _)
SubsetsUpTo(S, k) ==
    IF k = 0 THEN {{}}
    ELSE LET smaller == SubsetsUpTo(S, k - 1)
         IN  smaller \cup {T \cup {x} : T \in smaller, x \in S}

----------------------------------------------------------------------------
(* Helpers: sorting as sorted() / list.sort() do *)

MinOf(S) == CHOOSE x \in S : \A y \in S : x <= y
MaxOf(S) == CHOOSE x \in S : \A y \in S : y <= x

RECURSIVE SortedInts(_)
SortedInts(S) ==
    IF S = {} THEN <<>>
    ELSE <<MinOf(S)>> \o SortedInts(S \ {MinOf(S)})

\* (unit, module) pairs in ascending order
PairLess(a, b) == a[1] < b[1] \/ (a[1] = b[1] /\ a[2] <= b[2])
MinPair(S) == CHOOSE x \in S : \A y \in S : PairLess(x, y)

RECURSIVE SortedPairs(_)
SortedPairs(S) ==
    IF S = {} THEN <<>>
    ELSE <<MinPair(S)>> \o SortedPairs(S \ {MinPair(S)})

\* ports in ascending (unit, module, position) order
PortLess(a, b) ==
    \/ a[1] < b[1]
    \/ a[1] = b[1] /\ a[2] < b[2]
    \/ a[1] = b[1] /\ a[2] = b[2] /\ a[3] <= b[3]
MinPort(S) == CHOOSE x \in S : \A y \in S : PortLess(x, y)

RECURSIVE SortedPorts(_)
SortedPorts(S) ==
    IF S = {} THEN <<>>
    ELSE <<MinPort(S)>> \o SortedPorts(S \ {MinPort(S)})

RECURSIVE Flatten(_)
Flatten(ss) == IF ss = <<>> THEN <<>> ELSE Head(ss) \o Flatten(Tail(ss))

----------------------------------------------------------------------------
(* config_engine/schema.py: the typed model *)

VLANDesiredState(id, action, name, untagged, tagged) ==
    [id |-> id, action |-> action, name |-> name,
     untagged_ports |-> untagged, tagged_ports |-> tagged]

DesiredState(device_id, mode, vlans) ==
    [device_id |-> device_id, mode |-> mode, vlans |-> vlans]

VLANConfig(id, name, untagged, tagged) ==
    [id |-> id, name |-> name, untagged_ports |-> untagged, tagged_ports |-> tagged]

VLANChange(id, type, current_name, desired_name, addU, remU, addT, remT) ==
    [vlan_id |-> id, change_type |-> type,
     current_name |-> current_name, desired_name |-> desired_name,
     ports_to_add_untagged |-> addU, ports_to_remove_untagged |-> remU,
     ports_to_add_tagged |-> addT, ports_to_remove_tagged |-> remT]

\* an Optional field is <<>> for None and <<x>> for the value x
PortDesiredState(name, enabled, description, speed) ==
    [name |-> name, enabled |-> enabled, description |-> description, speed |-> speed]

PortChange(port_name, enabled, description, speed) ==
    [port_name |-> port_name, change_type |-> "modify",
     enabled |-> enabled, description |-> description, speed |-> speed]

\* devices/base.py: the fields of a PortConfig the diff engine reads
PortConfig(name, enabled, speed, description) ==
    [name |-> name, enabled |-> enabled, speed |-> speed, description |-> description]

\* Python's None, for an Optional[VLANChange] and an Optional[VLANConfig]
NoChange == VLANChange(0, "none", NoName, NoName, {}, {}, {}, {})
NoVlan == VLANConfig(0, NoName, {}, {})

CommandPlan(pre, main, post, rollback) ==
    [pre_commands |-> pre, main_commands |-> main,
     post_commands |-> post, rollback_commands |-> rollback]

Cmd(kind, id, name, ranges) == [op |-> kind, id |-> id, name |-> name, ranges |-> ranges]

----------------------------------------------------------------------------
(* config_engine/validator.py *)

LargeChangeSet == 20
ManyPortChanges == 50

\* PORT_PATTERNS: ^\d+/\d+/\d+$ (brocade), ^lan\d+$ (openwrt), ^\d+$ (zyxel).
\* The input universe holds no lan<N> identifier, so the openwrt pattern matches none.
PortPatternMatches(kind, port) ==
    CASE kind = "brocade" -> Len(port) = 3
      [] kind = "zyxel"   -> Len(port) = 1
      [] OTHER            -> FALSE

PORT_PATTERNS == {"brocade", "openwrt", "zyxel"}

valid_port_name(device_type, port) ==
    IF port = <<>> THEN FALSE
    ELSE IF device_type \in PORT_PATTERNS THEN PortPatternMatches(device_type, port)
    ELSE \E kind \in PORT_PATTERNS : PortPatternMatches(kind, port)

\* a validator that does not protect any VLAN from deletion
protected_delete_unchecked(vlan) == {}

\* the errors _validate_vlans appends for one VLAN
protected_delete_errors(vlan) ==
    IF vlan.id \in PROTECTED_VLANS /\ vlan.action = "absent"
    THEN {<<"cannot_delete", vlan.id>>}
    ELSE {}

validate_vlan_errors(device_type, vlan) ==
    IF vlan.id < MinVlanId \/ vlan.id > MaxVlanId
    THEN {<<"invalid_vlan_id", vlan.id>>}
    ELSE IF vlan.id \in RESERVED_VLANS
    THEN {<<"reserved", vlan.id>>}
    ELSE protected_delete_errors(vlan)
         \cup {<<"invalid_port", p, vlan.id>> :
                 p \in {q \in vlan.untagged_ports \cup vlan.tagged_ports :
                          ~valid_port_name(device_type, q)}}

validate_vlan_warnings(vlan) ==
    IF vlan.id < MinVlanId \/ vlan.id > MaxVlanId \/ vlan.id \in RESERVED_VLANS
    THEN {}
    ELSE IF vlan.action = "ensure" /\ vlan.untagged_ports = {} /\ vlan.tagged_ports = {}
    THEN {<<"no_ports", vlan.id>>}
    ELSE {}

\* untagged_assignments: the first ensure VLAN, in iteration order, that lists the port
FirstUntagged(vlans, port) ==
    MinOf({i \in DOMAIN vlans :
             vlans[i].action # "absent" /\ port \in vlans[i].untagged_ports})

untagged_conflict_errors(vlans) ==
    {<<"untagged_conflict", p, vlans[FirstUntagged(vlans, p)].id, vlans[i].id>> :
        <<i, p>> \in {<<j, q>> \in (DOMAIN vlans) \X (UNION {vlans[k].untagged_ports : k \in DOMAIN vlans}) :
                        /\ vlans[j].action # "absent"
                        /\ q \in vlans[j].untagged_ports
                        /\ FirstUntagged(vlans, q) # j}}

check_port_conflicts(ds) ==
    untagged_conflict_errors(ds.vlans)
    \cup {<<"tagged_and_untagged", ds.vlans[i].id>> :
            i \in {j \in DOMAIN ds.vlans :
                     /\ ds.vlans[j].action # "absent"
                     /\ ds.vlans[j].untagged_ports \cap ds.vlans[j].tagged_ports # {}}}

RECURSIVE SumPorts(_)
SumPorts(vlans) ==
    IF vlans = <<>> THEN 0
    ELSE Cardinality(Head(vlans).untagged_ports) + Cardinality(Head(vlans).tagged_ports)
         + SumPorts(Tail(vlans))

check_change_size(ds) ==
    (IF Len(ds.vlans) > LargeChangeSet THEN {<<"large_change_set", Len(ds.vlans)>>} ELSE {})
    \cup (IF SumPorts(ds.vlans) > ManyPortChanges
          THEN {<<"many_port_changes", SumPorts(ds.vlans)>>} ELSE {})

validate(device_type, ds) ==
    LET errors ==
            UNION {validate_vlan_errors(device_type, ds.vlans[i]) : i \in DOMAIN ds.vlans}
            \cup check_port_conflicts(ds)
        warnings ==
            UNION {validate_vlan_warnings(ds.vlans[i]) : i \in DOMAIN ds.vlans}
            \cup check_change_size(ds)
    IN  [valid |-> errors = {}, errors |-> errors, warnings |-> warnings]

----------------------------------------------------------------------------
(* config_engine/diff.py *)

\* a diff that does not compare names
diff_vlan_without_name(vlan_id, d, current) ==
    IF d.action = "absent"
    THEN IF current # NoVlan
         THEN VLANChange(vlan_id, "delete", current.name, NoName, {}, {}, {}, {})
         ELSE NoChange
    ELSE IF current = NoVlan
    THEN VLANChange(vlan_id, "create", NoName, d.name,
                    d.untagged_ports, {}, d.tagged_ports, {})
    ELSE LET addU == d.untagged_ports \ current.untagged_ports
             remU == current.untagged_ports \ d.untagged_ports
             addT == d.tagged_ports \ current.tagged_ports
             remT == current.tagged_ports \ d.tagged_ports
         IN  IF addU # {} \/ remU # {} \/ addT # {} \/ remT # {}
             THEN VLANChange(vlan_id, "modify", current.name, d.name, addU, remU, addT, remT)
             ELSE NoChange

diff_vlan(vlan_id, d, current) ==
    IF d.action = "absent"
    THEN IF current # NoVlan
         THEN VLANChange(vlan_id, "delete", current.name, NoName, {}, {}, {}, {})
         ELSE NoChange
    ELSE IF current = NoVlan
    THEN VLANChange(vlan_id, "create", NoName, d.name,
                    d.untagged_ports, {}, d.tagged_ports, {})
    ELSE LET addU == d.untagged_ports \ current.untagged_ports
             remU == current.untagged_ports \ d.untagged_ports
             addT == d.tagged_ports \ current.tagged_ports
             remT == current.tagged_ports \ d.tagged_ports
             has_changes ==
                 \/ addU # {} \/ remU # {} \/ addT # {} \/ remT # {}
                 \/ (d.name # NoName /\ d.name # current.name)
         IN  IF has_changes
             THEN VLANChange(vlan_id, "modify", current.name, d.name, addU, remU, addT, remT)
             ELSE NoChange

\* _diff_port: <<>> for None; current is <<>> for a port get_ports did not list
diff_port(port_name, d, current) ==
    LET current_enabled == IF current # <<>> THEN current[1].enabled ELSE TRUE
        current_desc == IF current # <<>> THEN current[1].description ELSE ""
        current_speed == IF current # <<>> THEN current[1].speed ELSE <<"auto">>
        enabled == IF d.enabled # <<>> /\ d.enabled[1] # current_enabled
                   THEN d.enabled ELSE <<>>
        description == IF d.description # <<>> /\ d.description[1] # current_desc
                       THEN d.description ELSE <<>>
        speed == IF d.speed # <<>> /\ d.speed # current_speed THEN d.speed ELSE <<>>
    IN  IF enabled # <<>> \/ description # <<>> \/ speed # <<>>
        THEN <<PortChange(port_name, enabled, description, speed)>>
        ELSE <<>>

\* current_vlan_map.get(vlan_id)
CurrentVlan(current_vlans, vlan_id) ==
    IF \E v \in current_vlans : v.id = vlan_id
    THEN CHOOSE v \in current_vlans : v.id = vlan_id
    ELSE NoVlan

RECURSIVE VlanChanges(_, _)
VlanChanges(vlans, current_vlans) ==
    IF vlans = <<>> THEN <<>>
    ELSE LET change == diff_vlan(Head(vlans).id, Head(vlans),
                                 CurrentVlan(current_vlans, Head(vlans).id))
         IN  (IF change # NoChange THEN <<change>> ELSE <<>>)
             \o VlanChanges(Tail(vlans), current_vlans)

\* a diff engine that also deletes every VLAN of the switch the desired state
\* does not list
calculate_full(d, current_vlans) ==
    LET listed == {d.vlans[i].id : i \in DOMAIN d.vlans}
        others == SortedInts({v.id : v \in current_vlans} \ listed)
    IN  [vlan_changes |->
            VlanChanges(d.vlans, current_vlans)
            \o [i \in DOMAIN others |->
                   VLANChange(others[i], "delete", NoName, NoName, {}, {}, {}, {})],
         port_changes |-> <<>>]

\* DiffEngine.calculate, given what get_vlans returned; the inputs list no port intent
calculate(d, current_vlans) ==
    [vlan_changes |-> VlanChanges(d.vlans, current_vlans), port_changes |-> <<>>]

no_change(diff) == Len(diff.vlan_changes) = 0 /\ Len(diff.port_changes) = 0

----------------------------------------------------------------------------
(* config_engine/generator.py *)

\* the end of the run of consecutive positions that starts at lo
RunEnd(positions, lo) == MaxOf({k \in positions : k >= lo /\ \A j \in lo..k : j \in positions})

RECURSIVE Runs(_)
Runs(positions) ==
    IF positions = {} THEN <<>>
    ELSE LET lo == MinOf(positions)
             hi == RunEnd(positions, lo)
         IN  <<<<lo, hi>>>> \o Runs(positions \ (lo..hi))

\* a grouping that emits one token per module, from its first port to its last
ModuleRanges_spanning(parsed, um) ==
    LET positions == {p[3] : p \in {q \in parsed : q[1] = um[1] /\ q[2] = um[2]}}
    IN  <<<<<<um[1], um[2], MinOf(positions)>>, <<um[1], um[2], MaxOf(positions)>>>>>>

\* the "start to end" tokens of one (unit, module) group
ModuleRanges(parsed, um) ==
    LET runs == Runs({p[3] : p \in {q \in parsed : q[1] = um[1] /\ q[2] = um[2]}})
    IN  [k \in 1..Len(runs) |-> <<<<um[1], um[2], runs[k][1]>>, <<um[1], um[2], runs[k][2]>>>>]

\* one port spec (a sequence of ranges) per (unit, module); an identifier that
\* does not have three parts is appended to nothing
group_ports_by_module(ports) ==
    IF ports = {} THEN <<>>
    ELSE LET parsed == {p \in ports : Len(p) = 3}
             modules == SortedPairs({<<p[1], p[2]>> : p \in parsed})
         IN  [i \in 1..Len(modules) |-> ModuleRanges(parsed, modules[i])]

\* BrocadeDevice._format_port_range: the runs of every (unit, module), in
\* order, joined into one port spec
format_port_range(ports) ==
    LET parsed == {p \in ports : Len(p) = 3}
        modules == SortedPairs({<<p[1], p[2]>> : p \in parsed})
    IN  Flatten([i \in 1..Len(modules) |-> ModuleRanges(parsed, modules[i])])

\* the commands BrocadeDevice.create_vlan hands to execute_config_mode; <<>>
\* for a VLAN id it refuses.  The VLANs of the inputs have no IP address.
create_vlan_commands(vlan) ==
    IF vlan.id < 1 \/ vlan.id > 4094 THEN <<>>
    ELSE <<Cmd("vlan_by_port", vlan.id,
               IF vlan.name # NoName THEN vlan.name ELSE DefaultName(vlan.id), <<>>)>>
         \o (IF vlan.untagged_ports # {}
             THEN <<Cmd("untagged", 0, NoName, format_port_range(vlan.untagged_ports))>>
             ELSE <<>>)
         \o (IF vlan.tagged_ports # {}
             THEN <<Cmd("tagged", 0, NoName, format_port_range(vlan.tagged_ports))>>
             ELSE <<>>)
         \o <<Cmd("exit", 0, NoName, <<>>)>>

PortCommands(kind, ports) ==
    LET specs == group_ports_by_module(ports)
    IN  [i \in 1..Len(specs) |-> Cmd(kind, 0, NoName, specs[i])]

\* a generator that, for a modify, adds ports before it removes ports
brocade_vlan_commands_adds_first(change) ==
    CASE change.change_type = "modify" ->
            <<Cmd("vlan", change.vlan_id, NoName, <<>>)>>
            \o PortCommands("untagged", change.ports_to_add_untagged)
            \o PortCommands("tagged", change.ports_to_add_tagged)
            \o PortCommands("no_untagged", change.ports_to_remove_untagged)
            \o PortCommands("no_tagged", change.ports_to_remove_tagged)
            \o <<Cmd("exit", 0, NoName, <<>>)>>
      [] OTHER -> <<>>

brocade_vlan_commands(change) ==
    CASE change.change_type = "create" ->
            <<Cmd("vlan_by_port", change.vlan_id,
                  IF change.desired_name # NoName THEN change.desired_name
                  ELSE DefaultName(change.vlan_id), <<>>)>>
            \o PortCommands("untagged", change.ports_to_add_untagged)
            \o PortCommands("tagged", change.ports_to_add_tagged)
            \o <<Cmd("exit", 0, NoName, <<>>)>>
      [] change.change_type = "delete" ->
            <<Cmd("no_vlan", change.vlan_id, NoName, <<>>)>>
      [] change.change_type = "modify" ->
            <<Cmd("vlan", change.vlan_id, NoName, <<>>)>>
            \o PortCommands("no_untagged", change.ports_to_remove_untagged)
            \o PortCommands("no_tagged", change.ports_to_remove_tagged)
            \o PortCommands("untagged", change.ports_to_add_untagged)
            \o PortCommands("tagged", change.ports_to_add_tagged)
            \o <<Cmd("exit", 0, NoName, <<>>)>>
      [] OTHER -> <<>>

\* interface ethe <port> / no dual-mode / exit, for every port leaving the tagged
\* set.  The code walks list(set): the model takes the ports in ascending order
\* (these commands do not touch the VLAN table).
dual_mode_commands(change) ==
    IF change.change_type # "modify" THEN <<>>
    ELSE LET ports == SortedPorts(change.ports_to_remove_tagged)
         IN  Flatten([i \in 1..Len(ports) |->
                 <<Cmd("interface", 0, NoName, <<<<ports[i], ports[i]>>>>),
                   Cmd("no_dual_mode", 0, NoName, <<>>),
                   Cmd("exit", 0, NoName, <<>>)>>])

\* the speed-duplex argument for a speed; no command for a speed the code does not list
speed_duplex(speed) ==
    CASE speed = "auto" -> <<"auto">>
      [] speed = "10G"  -> <<"10g-full">>
      [] speed = "1G"   -> <<"1000-full">>
      [] speed = "100M" -> <<"100-full">>
      [] OTHER          -> <<>>

\* "if change.description": neither None nor the empty string
brocade_port_commands(change) ==
    <<Cmd("interface", 0, NoName, <<<<change.port_name, change.port_name>>>>)>>
    \o (IF change.enabled # <<>>
        THEN <<Cmd(IF change.enabled[1] THEN "enable" ELSE "disable", 0, NoName, <<>>)>>
        ELSE <<>>)
    \o (IF change.description # <<>> /\ change.description[1] # ""
        THEN <<Cmd("port_name", 0, change.description, <<>>)>>
        ELSE <<>>)
    \o (IF change.speed # <<>> /\ speed_duplex(change.speed[1]) # <<>>
        THEN <<Cmd("speed_duplex", 0, speed_duplex(change.speed[1]), <<>>)>>
        ELSE <<>>)
    \o <<Cmd("exit", 0, NoName, <<>>)>>

brocade_rollback_commands(change) ==
    CASE change.change_type = "create" ->
            <<Cmd("no_vlan", change.vlan_id, NoName, <<>>)>>
      [] change.change_type = "delete" ->
            <<Cmd("rollback_note", change.vlan_id, NoName, <<>>)>>
      [] change.change_type = "modify" ->
            <<Cmd("vlan", change.vlan_id, NoName, <<>>)>>
            \o PortCommands("no_untagged", change.ports_to_add_untagged)
            \o PortCommands("no_tagged", change.ports_to_add_tagged)
            \o PortCommands("untagged", change.ports_to_remove_untagged)
            \o PortCommands("tagged", change.ports_to_remove_tagged)
            \o <<Cmd("exit", 0, NoName, <<>>)>>
      [] OTHER -> <<>>

Reverse(s) == [i \in 1..Len(s) |-> s[Len(s) + 1 - i]]

generate_brocade_rollback(diff) ==
    LET changes == Reverse(diff.vlan_changes)
    IN  Flatten([i \in 1..Len(changes) |-> brocade_rollback_commands(changes[i])])

generate_brocade(diff, save_config) ==
    LET changes == diff.vlan_changes
        pre == Flatten([i \in 1..Len(changes) |-> dual_mode_commands(changes[i])])
        main == Flatten([i \in 1..Len(changes) |-> brocade_vlan_commands(changes[i])])
                \o Flatten([i \in DOMAIN diff.port_changes |->
                               brocade_port_commands(diff.port_changes[i])])
        post == IF save_config /\ main # <<>>
                THEN <<Cmd("write_memory", 0, NoName, <<>>)>> ELSE <<>>
    IN  CommandPlan(pre, main, post, generate_brocade_rollback(diff))

----------------------------------------------------------------------------
(* The switch, abstractly: a VLAN table and the CLI context.  The commands  *)
(* are those of the Brocade command reference of devices/brocade.py.        *)

VlanEntry(present, name, untagged, tagged) ==
    [present |-> present, name |-> name, untagged |-> untagged, tagged |-> tagged]

AbsentVlan == VlanEntry(FALSE, NoName, {}, {})

\* the ports a "start to end" token names; a token across modules names none
RangePorts(r) ==
    IF r[1][1] = r[2][1] /\ r[1][2] = r[2][2]
    THEN {<<r[1][1], r[1][2], k>> : k \in r[1][3]..r[2][3]}
    ELSE {}

CommandPorts(cmd) == UNION {RangePorts(cmd.ranges[i]) : i \in DOMAIN cmd.ranges}

\* the VLAN table after the switch has taken cmd in context c
DeviceVlans(table, c, cmd) ==
    CASE cmd.op = "vlan_by_port" ->
            [table EXCEPT ![cmd.id] =
                IF @.present THEN [@ EXCEPT !.name = cmd.name]
                ELSE VlanEntry(TRUE, cmd.name, {}, {})]
      [] cmd.op = "vlan" ->
            [table EXCEPT ![cmd.id] =
                IF @.present THEN @ ELSE VlanEntry(TRUE, DefaultName(cmd.id), {}, {})]
      [] cmd.op = "no_vlan" -> [table EXCEPT ![cmd.id] = AbsentVlan]
      [] cmd.op = "untagged" /\ c # 0 ->
            [table EXCEPT ![c].untagged = @ \cup CommandPorts(cmd)]
      [] cmd.op = "no_untagged" /\ c # 0 ->
            [table EXCEPT ![c].untagged = @ \ CommandPorts(cmd)]
      [] cmd.op = "tagged" /\ c # 0 ->
            [table EXCEPT ![c].tagged = @ \cup CommandPorts(cmd)]
      [] cmd.op = "no_tagged" /\ c # 0 ->
            [table EXCEPT ![c].tagged = @ \ CommandPorts(cmd)]
      [] OTHER -> table

DeviceContext(c, cmd) ==
    CASE cmd.op \in {"vlan_by_port", "vlan"} -> cmd.id
      [] cmd.op \in {"exit", "interface"} -> 0
      [] cmd.op = "no_vlan" -> IF c = cmd.id THEN 0 ELSE c
      [] OTHER -> c

\* BrocadeDevice.get_vlans on a successful "show vlan": one VLANConfig per VLAN
get_vlans(table) ==
    {VLANConfig(v, table[v].name, table[v].untagged, table[v].tagged) :
        v \in {w \in DOMAIN table : table[w].present}}

\* The attributes of the ports: whether the port is enabled, its port-name and
\* its speed-duplex setting.
PortEntry(enabled, description, speed) ==
    [enabled |-> enabled, description |-> description, speed |-> speed]

\* the port table after the switch has taken cmd at interface level ifc
\* (<<>> outside the interface level, <<port>> inside)
DevicePorts(ports, ifc, cmd) ==
    CASE ifc = <<>>              -> ports
      [] cmd.op = "enable"       -> [ports EXCEPT ![ifc[1]].enabled = TRUE]
      [] cmd.op = "disable"      -> [ports EXCEPT ![ifc[1]].enabled = FALSE]
      [] cmd.op = "port_name"    -> [ports EXCEPT ![ifc[1]].description = cmd.name[1]]
      [] cmd.op = "speed_duplex" -> [ports EXCEPT ![ifc[1]].speed = cmd.name[1]]
      [] OTHER                   -> ports

DeviceInterface(ifc, cmd) ==
    CASE cmd.op = "interface" -> <<cmd.ranges[1][1]>>
      [] cmd.op \in {"exit", "vlan", "vlan_by_port"} -> <<>>
      [] OTHER -> ifc

\* BrocadeDevice.get_ports on a successful "show interfaces brief": one
\* PortConfig per port, with the Speed column for speed (None on a port left
\* to auto-negotiation) and the default description
get_ports(ports) ==
    {PortConfig(p, ports[p].enabled,
                CASE ports[p].speed = "10g-full"  -> <<"10G">>
                  [] ports[p].speed = "1000-full" -> <<"1G">>
                  [] ports[p].speed = "100-full"  -> <<"100M">>
                  [] OTHER                        -> <<>>,
                "") : p \in DOMAIN ports}

\* the port table after the switch has taken every command of cmds, from level ifc
RECURSIVE ApplyAllPorts(_, _, _)
ApplyAllPorts(ports, ifc, cmds) ==
    IF cmds = <<>> THEN ports
    ELSE ApplyAllPorts(DevicePorts(ports, ifc, Head(cmds)),
                       DeviceInterface(ifc, Head(cmds)), Tail(cmds))

----------------------------------------------------------------------------
(* Inputs: desired states and VLAN tables within the bounds *)

RECURSIVE DistinctSeqs(_, _)
DistinctSeqs(S, n) ==
    IF n = 0 THEN {<<>>}
    ELSE LET shorter == DistinctSeqs(S, n - 1)
         IN  shorter \cup
             {Append(q[1], q[2]) :
                 q \in {r \in shorter \X S : \A i \in DOMAIN r[1] : r[1][i] # r[2]}}

\* The details a scenario may carry, MaxDetails of them at most: a membership
\* the desired state lists ("u"/"t"), a name it gives ("n"), a membership the
\* switch holds.  A VLAN of the switch is named Old before any plan runs.
Actions == {"ensure", "absent"}

DesiredDetails(ids, act, ports, names) ==
    LET ensured == {ids[j] : j \in {i \in DOMAIN ids : act[i] = "ensure"}}
    IN  {<<"d", v, k, p>> : v \in ensured, k \in {"u", "t"}, p \in ports}
        \cup {<<"d", v, "n", n>> : v \in ensured, n \in names}

LiveDetails(present, ports) ==
    {<<"l", v, k, p>> : v \in present, k \in {"u", "t"}, p \in ports}

MemberPorts(E, side, v, k) == {e[4] : e \in {x \in E : x[1] = side /\ x[2] = v /\ x[3] = k}}

GivenName(E, v) ==
    IF MemberPorts(E, "d", v, "n") = {} THEN NoName
    ELSE CHOOSE n \in MemberPorts(E, "d", v, "n") : TRUE

OneNameEach(E, ids) == \A i \in DOMAIN ids : Cardinality(MemberPorts(E, "d", ids[i], "n")) <= 1

BuildDesired(device_id, ids, act, E) ==
    DesiredState(device_id, "patch",
        [i \in DOMAIN ids |->
            VLANDesiredState(ids[i], act[i], GivenName(E, ids[i]),
                             MemberPorts(E, "d", ids[i], "u"),
                             MemberPorts(E, "d", ids[i], "t"))])

BuildLive(present, E) ==
    [v \in VlanIds |->
        IF v \notin present THEN AbsentVlan
        ELSE VlanEntry(TRUE, <<"Old">>, MemberPorts(E, "l", v, "u"), MemberPorts(E, "l", v, "t"))]

\* the memberships a VLAN table holds
RECURSIVE TableDetails(_, _)
TableDetails(table, ids) ==
    IF ids = {} THEN 0
    ELSE LET v == CHOOSE w \in ids : TRUE
         IN  Cardinality(table[v].untagged) + Cardinality(table[v].tagged)
             + TableDetails(table, ids \ {v})

----------------------------------------------------------------------------
(* config/inventory.py and the device classes *)

\* the devices of the inventory; both are Brocade switches
Devices == {"br-a", "br-b"}

\* DeviceInventory.get_device_config: <<the config>>, or <<>> for the KeyError
get_device_config(device_id) ==
    IF device_id \in Devices THEN <<[type |-> "brocade"]>> ELSE <<>>

\* the methods a BrocadeDevice has (its own and those of NetworkDevice)
DeviceMethods ==
    {"connect", "disconnect", "check_health", "execute", "execute_batch",
     "execute_config_mode", "get_running_config", "get_vlans", "get_ports",
     "create_vlan", "delete_vlan", "configure_port", "save_config",
     "download_config", "upload_config", "reload_config", "get_config_file",
     "put_config_file"}

\* @with_retry(max_attempts=5) of BrocadeDevice.connect
MaxConnectAttempts == 5

Show(what) == Cmd(what, 0, NoName, <<>>)

\* the commands get_vlans and get_ports send
ReadCommands == {Show("show_vlan"), Show("show_interfaces_brief")}

\* the VLAN table after the switch has taken every command of cmds, from context c
RECURSIVE ApplyAll(_, _, _)
ApplyAll(table, c, cmds) ==
    IF cmds = <<>> THEN table
    ELSE ApplyAll(DeviceVlans(table, c, Head(cmds)), DeviceContext(c, Head(cmds)), Tail(cmds))

----------------------------------------------------------------------------
(* config_engine/parser.py.  A config dict is a record                     *)
(* [device_id, mode, vlans]: "" stands for a key the dict does not have;   *)
(* a VLAN key is [numeric, value] (the int 100 and the string "100" are    *)
(* numeric, the string "abc" is not); a port token is [base, last]: last   *)
(* is 0 for a single identifier and d for the range "u/m/p-d".             *)

Token(base, last) == [base |-> base, last |-> last]

\* an expansion that stops one short of the end of the range
expand_port_range_exclusive(tok) ==
    IF tok.last = 0 \/ Len(tok.base) # 3 THEN {tok.base}
    ELSE {<<tok.base[1], tok.base[2], i>> : i \in tok.base[3]..(tok.last - 1)}

\* range(start_num, end_num + 1): no identifier when the end is below the start
expand_port_range(tok) ==
    IF tok.last = 0 \/ Len(tok.base) # 3 THEN {tok.base}
    ELSE {<<tok.base[1], tok.base[2], i>> : i \in tok.base[3]..tok.last}

expand_port_list(tokens) == UNION {expand_port_range(tok) : tok \in tokens}

VLANActions == {"ensure", "absent"}

ParseError(cfg) ==
    \/ cfg.device_id = ""
    \/ cfg.mode \notin {"", "full", "patch"}
    \/ \E i \in DOMAIN cfg.vlans :
          \/ ~cfg.vlans[i].key.numeric
          \/ cfg.vlans[i].action \notin VLANActions \cup {""}

parse_single_vlan(vlan_id, raw) ==
    VLANDesiredState(vlan_id,
                     IF raw.action = "" THEN "ensure" ELSE raw.action,
                     raw.name,
                     expand_port_list(raw.untagged_ports),
                     expand_port_list(raw.tagged_ports))

parse(cfg) ==
    DesiredState(cfg.device_id,
                 IF cfg.mode = "" THEN "patch" ELSE cfg.mode,
                 [i \in DOMAIN cfg.vlans |->
                     parse_single_vlan(cfg.vlans[i].key.value, cfg.vlans[i])])

NoConfig == [device_id |-> "", mode |-> "", vlans |-> <<>>]
NoDesired == DesiredState("", "patch", <<>>)

----------------------------------------------------------------------------
(* config_engine/engine.py and config_engine/executor.py: the steps of     *)
(* ConfigEngine.apply_config that do not touch the device                  *)

ExecuteResult(dr) ==
    [success |-> FALSE, dry_run |-> dr, changes_made |-> "none",
     commands_executed |-> <<>>, error |-> "", error_context |-> {},
     recovery_attempts |-> {}, requires_ai_intervention |-> FALSE,
     rollback_performed |-> FALSE]

\* an engine that goes on to the device whatever the validator found
after_validate_ignored(validation) == "continue"

\* apply_config after validation: return the failure, or go on to the device
after_validate(validation) == IF ~validation.valid THEN "return" ELSE "continue"

\* CommandGenerator.generate: <<the plan>>, or <<>> for the ValueError
generate(device_type, diff) ==
    CASE device_type = "brocade" -> <<generate_brocade(diff, TRUE)>>
      [] device_type = "openwrt" ->
            <<CommandPlan(<<>>, <<Cmd("comment", 0, NoName, <<>>)>>, <<>>, <<>>)>>
      [] OTHER -> <<>>

\* an executor without the dry-run guard
execute_entry_unguarded(options_dry_run) == "connect"

\* ConfigExecutor.execute before it touches the device
execute_entry(options_dry_run) == IF options_dry_run THEN "dry_run" ELSE "connect"

AllCommands(plan) == plan.pre_commands \o plan.main_commands \o plan.post_commands

\* ConfigExecutor._dry_run
dry_run_result(plan) ==
    [ExecuteResult(TRUE) EXCEPT
        !.success = TRUE,
        !.commands_executed = [i \in DOMAIN AllCommands(plan) |-> <<"DRY-RUN", AllCommands(plan)[i]>>],
        !.changes_made = "preview"]

SeqRange(s) == {s[i] : i \in DOMAIN s}

ExecuteOptions(dr, stop_on_error, rollback_on_error) ==
    [dry_run |-> dr, stop_on_error |-> stop_on_error, rollback_on_error |-> rollback_on_error]

\* the options apply_config builds: stop_on_error=True, rollback_on_error=False
engine_options(dr) == ExecuteOptions(dr, TRUE, FALSE)

\* the classes a device object handed to the executor may have: a device of
\* the inventory, or a device that supports the batch call of the executor
DeviceClasses == {"BrocadeDevice", "BatchDevice"}

MethodsOf(class) ==
    IF class = "BatchDevice" THEN DeviceMethods \cup {"execute_config_batch"}
    ELSE DeviceMethods

\* an executor that sends the pre-commands last to first
pre_phase_reversed(plan) == Reverse(plan.pre_commands)

\* the commands execute hands to _execute_commands in the pre phase
pre_phase(plan) == plan.pre_commands

\* an executor that rolls back whatever the options say
rollback_always(opts, plan) == plan.rollback_commands # <<>>

\* "if options.rollback_on_error and plan.rollback_commands"
rollback_wanted(opts, plan) == opts.rollback_on_error /\ plan.rollback_commands # <<>>

\* a command loop that goes on to the next command after an error output
execute_commands_lenient(how) ==
    CASE how = "ok"    -> "next"
      [] how = "error" -> "next"
      [] how = "raise" -> "return_false"
      [] OTHER         -> "propagate"

\* _execute_commands after device.execute ended for one command: the next
\* command, (False, message) for an error output or an Exception, or the
\* CancelledError that no "except Exception" catches
execute_commands(how) ==
    CASE how = "ok"                 -> "next"
      [] how \in {"error", "raise"} -> "return_false"
      [] OTHER                      -> "propagate"

\* execute, after _execute_commands returned success = False in the pre phase
pre_failure(res, plan) ==
    [res EXCEPT !.success = FALSE, !.error = "pre",
                !.error_context = {<<"pre_output">>},
                !.commands_executed = plan.pre_commands]

\* an executor that does not ask for a review after a failed main batch
main_failure_unflagged(res, k) ==
    [res EXCEPT !.success = FALSE, !.error = "main",
                !.error_context = {<<"batch_output", k>>}]

\* execute, after the main batch returned success = False at its k-th command
main_failure(res, k) ==
    [res EXCEPT !.success = FALSE, !.error = "main",
                !.error_context = {<<"batch_output", k>>},
                !.requires_ai_intervention = TRUE]

\* a rollback whose failure replaces the error of the result
attempt_rollback_overwriting(res, how) ==
    CASE how = "ok" ->
            [res EXCEPT !.rollback_performed = TRUE,
                        !.recovery_attempts = @ \cup {<<"rollback_successful">>}]
      [] OTHER ->
            [res EXCEPT !.error = "rollback", !.error_context = {<<"rollback_output">>}]

\* _attempt_rollback, given how the rollback batch ended
attempt_rollback(res, how) ==
    CASE how = "ok" ->
            [res EXCEPT !.rollback_performed = TRUE,
                        !.recovery_attempts = @ \cup {<<"rollback_successful">>}]
      [] how = "failed" ->
            [res EXCEPT !.recovery_attempts = @ \cup {<<"rollback_failed">>}]
      [] OTHER ->
            [res EXCEPT !.recovery_attempts = @ \cup {<<"rollback_exception">>}]

\* an executor for which a failed post-command fails the apply
post_phase_strict(res, plan, failing) ==
    IF failing = 0
    THEN [res EXCEPT !.commands_executed = @ \o plan.post_commands,
                     !.changes_made = "changes", !.success = TRUE]
    ELSE [res EXCEPT !.commands_executed = @ \o plan.post_commands,
                     !.success = FALSE, !.error = "post",
                     !.error_context = {<<"post_output", failing>>}]

\* execute from the post-commands on; failing is the post-command that failed, or 0
post_phase(res, plan, failing) ==
    [res EXCEPT !.commands_executed = @ \o plan.post_commands,
                !.changes_made = "changes", !.success = TRUE]

\* the except clause of execute
exception_result(res) ==
    [res EXCEPT !.success = FALSE, !.error = "exception", !.requires_ai_intervention = TRUE]

NoTrace ==
    [pre |-> "none", main |-> "none", at |-> 0, rollback |-> "none",
     rollback_sent |-> <<>>, post |-> "none"]

\* how a batch call on the main commands may end, and at which command
BatchEndings(main, supported) ==
    IF main = <<>> THEN {<<"skipped", 0>>}
    ELSE IF ~supported THEN {<<"unsupported", 0>>}
    ELSE {<<"ok", Len(main)>>}
         \cup {<<"failed", k>> : k \in 1..Len(main)}
         \cup {<<how, k>> : how \in {"raised", "cancelled"}, k \in 0..Len(main)}

\* the main commands the device received
BatchReceived(main, ending, stop_on_error) ==
    CASE ending[1] = "ok" -> main
      [] ending[1] = "failed" -> IF stop_on_error THEN SubSeq(main, 1, ending[2]) ELSE main
      [] ending[1] \in {"raised", "cancelled"} -> SubSeq(main, 1, ending[2])
      [] OTHER -> <<>>

\* the main commands the device carried out
BatchApplied(main, ending, stop_on_error) ==
    CASE ending[1] = "ok" -> main
      [] ending[1] = "failed" ->
            SubSeq(main, 1, ending[2] - 1)
            \o (IF stop_on_error THEN <<>> ELSE SubSeq(main, ending[2] + 1, Len(main)))
      [] ending[1] \in {"raised", "cancelled"} -> SubSeq(main, 1, ending[2])
      [] OTHER -> <<>>

----------------------------------------------------------------------------
(* config_store/store.py and config_store/git_manager.py.  A config body is *)
(* the record [text, version, updated_at]: text stands for its vlans and    *)
(* ports; version is the value of its "version" key, 0 when the dict does   *)
(* not have the key; updated_at is <<>> when the dict does not have the key *)
(* and <<"given">> for a time the body gives.  The time of a save is        *)
(* <<"now", t>>.  A file is the YAML mapping to_yaml writes; <<>> stands    *)
(* for None and for a missing file, <<x>> for a value that is there.        *)

BodyTexts == {"Original", "Modified"}
Bodies == [text : BodyTexts, version : {0, 1}, updated_at : {<<>>, <<"given">>}]

NoFile == <<>>

StoredConfig(device_id, body, version, checksum, updated_at, source) ==
    [device_id |-> device_id, config |-> body, version |-> version,
     checksum |-> checksum, updated_at |-> updated_at, source |-> source]

\* sha256 of json.dumps(config, sort_keys=True): one checksum per body
Checksum(body) == <<"sha256", body>>

\* StoredConfig.to_yaml: {**header, **self.config}, a key of the body wins
to_yaml(stored) ==
    [version |-> IF stored.config.version # 0 THEN stored.config.version
                 ELSE stored.version,
     checksum |-> stored.checksum,
     updated_at |-> IF stored.config.updated_at # <<>> THEN stored.config.updated_at
                    ELSE stored.updated_at,
     source |-> stored.source,
     text |-> stored.config.text]

\* StoredConfig.from_yaml: the metadata keys are popped, the rest is the body
from_yaml(file, device_id) ==
    StoredConfig(device_id,
                 [text |-> file.text, version |-> 0, updated_at |-> <<>>],
                 file.version, file.checksum, file.updated_at, file.source)

\* ConfigStore.get_desired_config: <<the StoredConfig>>, or <<>>
get_desired_config(files, device_id) ==
    IF files[device_id] = NoFile THEN <<>>
    ELSE <<from_yaml(files[device_id][1], device_id)>>

\* a store that numbers every save 1
next_version_constant(existing) == 1

\* "version = (existing.version + 1) if existing else 1"
next_version(existing) == IF existing = <<>> THEN 1 ELSE existing[1].version + 1

\* the tree of the initial commit: no desired-state file
InitialTree == [d \in Devices |-> NoFile]

\* the tree of HEAD~back: <<the tree>>, or <<>> when the history is shorter
TreeAt(commits, back) ==
    IF back > Len(commits) THEN <<>>
    ELSE IF back = Len(commits) THEN <<InitialTree>>
    ELSE <<commits[Len(commits) - back].tree>>

\* a git manager that reads every revision as HEAD
get_file_at_head(commits, device_id, back) ==
    IF TreeAt(commits, 0) = <<>> THEN NoFile
    ELSE TreeAt(commits, 0)[1][device_id]

\* GitManager.get_file_at_revision for "HEAD~back": the file, or NoFile for None
get_file_at_revision(commits, device_id, back) ==
    IF TreeAt(commits, back) = <<>> THEN NoFile
    ELSE TreeAt(commits, back)[1][device_id]

\* a git manager that commits whatever is staged
nothing_staged_unchecked(files, tree, device_id) == FALSE

\* GitManager.commit after "git add <file>": git diff --cached --quiet returns 0
nothing_staged(files, tree, device_id) == files[device_id] = tree[device_id]

NoReturn ==
    [op |-> "none", device_id |-> "", stored |-> <<>>, commit |-> "none",
     written |-> NoFile, head_before |-> NoFile, existing |-> <<>>,
     log_before |-> 0, revision |-> 0]

----------------------------------------------------------------------------
(* Idle values: what a specification leaves alone *)

EngineIdle ==
    /\ op = "none" /\ pc = "idle" /\ config = NoConfig /\ dry_run = FALSE
    /\ diff_result = <<>> /\ command_plan = <<>> /\ result = ExecuteResult(FALSE)
    /\ raised = FALSE /\ attempt = 0 /\ opened = {} /\ sent = {}
    /\ again = FALSE /\ faults = FALSE
    /\ options = engine_options(FALSE) /\ device = "BrocadeDevice"
    /\ wire = <<>> /\ trace = NoTrace /\ cancelled = FALSE

StoreIdle ==
    /\ working = [d \in Devices |-> NoFile]
    /\ head = [d \in Devices |-> NoFile]
    /\ log = <<>> /\ clock = 0
    /\ saves = [d \in Devices |-> 0]
    /\ returned = NoReturn
    /\ deleted = {}

NoCall == [fn |-> "none", arg |-> <<>>]

UnitIdle == fn_call = NoCall /\ fn_value = <<>>

DevicesIdle ==
    /\ telnet = [d \in Devices |-> "none"]
    /\ connected = [d \in Devices |-> FALSE]

FanoutIdle ==
    /\ taskDev = <<>> /\ taskPc = <<>> /\ taskTry = <<>>
    /\ taskCalls = <<>> /\ taskResult = <<>> /\ response = <<>>

----------------------------------------------------------------------------
(* SpecPlan: the plan generated for a desired state, applied to the switch *)
(* one command at a time (pre, then main, then post).                      *)

PlanOf(ds, table) == generate_brocade(calculate(ds, get_vlans(table)), TRUE)

InitPlan ==
    \E ids \in DistinctSeqs(VlanIds, Cardinality(VlanIds)) :
    \E act \in [DOMAIN ids -> Actions] :
    \E present \in SUBSET VlanIds :
    \E E \in SubsetsUpTo(DesiredDetails(ids, act, BrocadePorts, DesiredNames \ {NoName})
                            \cup LiveDetails(present, BrocadePorts),
                         MaxDetails) :
        LET ds == BuildDesired("br-a", ids, act, E)
            table == BuildLive(present, E)
            cmds == AllCommands(PlanOf(ds, table))
        IN  /\ OneNameEach(E, ids)
            /\ desired = ds
            /\ live = table
            /\ live0 = table
            /\ ctx = 0
            /\ queue = cmds
            /\ walk = IF cmds = <<>> THEN "done" ELSE "run"
            /\ EngineIdle /\ DevicesIdle /\ FanoutIdle /\ StoreIdle /\ UnitIdle

StepPlan ==
    /\ walk = "run"
    /\ live' = DeviceVlans(live, ctx, Head(queue))
    /\ ctx' = DeviceContext(ctx, Head(queue))
    /\ queue' = Tail(queue)
    /\ walk' = IF Tail(queue) = <<>> THEN "done" ELSE "run"
    /\ UNCHANGED <<desired, live0, engineVars, telnet, connected, fanoutVars, storeVars, unitVars>>

NextPlan == StepPlan

SpecPlan == InitPlan /\ [][NextPlan]_vars

----------------------------------------------------------------------------
(* Spec: the operations of the config engine on the device br-a.  The engine *)
(* takes one operation at a time; the device decides the outcome of every    *)
(* connect, read and command.                                                *)

\* ports and port tokens of the configs handed to the engine
EnginePorts == {<<1, 1, 1>>}
EngineTokens == {Token(<<1, 1, 1>>, 0), Token(<<1, 1, 1>>, MaxPos)}

\* what is wrong with a config dict: a missing device id, an unknown mode, a
\* VLAN key that is no number, an unknown action, a device not in the inventory
Defects == {"none", "no_device", "bad_mode", "bad_key", "bad_action", "unknown_device"}

BuildConfig(ids, act, E, defect) ==
    [device_id |-> CASE defect = "no_device" -> ""
                     [] defect = "unknown_device" -> "ghost"
                     [] OTHER -> "br-a",
     mode |-> IF defect = "bad_mode" THEN "merge" ELSE "",
     vlans |-> [i \in DOMAIN ids |->
                  [key |-> [numeric |-> ~(defect = "bad_key" /\ i = 1), value |-> ids[i]],
                   action |-> IF defect = "bad_action" /\ i = 1 THEN "purge" ELSE act[i],
                   name |-> NoName,
                   untagged_ports |-> MemberPorts(E, "d", ids[i], "u"),
                   tagged_ports |-> MemberPorts(E, "d", ids[i], "t")]]]

\* no list of the config names a port twice
NoRepeatedPort(E) ==
    \A x \in E, y \in E :
        (x # y /\ x[2] = y[2] /\ x[3] = y[3])
            => expand_port_range(x[4]) \cap expand_port_range(y[4]) = {}

Init ==
    \E present \in SUBSET VlanIds :
    \E E \in SubsetsUpTo(LiveDetails(present, EnginePorts), MaxDetails) :
        /\ live = BuildLive(present, E)
        /\ live0 = BuildLive(present, E)
        /\ desired = NoDesired
        /\ ctx = 0 /\ queue = <<>> /\ walk = "idle"
        /\ EngineIdle /\ DevicesIdle /\ FanoutIdle /\ StoreIdle /\ UnitIdle

\* the apply just finished was a real one for this desired state: not a dry
\* run, not rejected, and the device failed nothing
RepeatsLast(cfg) ==
    /\ op = "apply" /\ pc = "done" /\ ~dry_run /\ ~faults /\ ~raised
    /\ result.error \notin {"parse", "validation"}
    /\ ~ParseError(cfg)
    /\ parse(cfg) = desired

\* what every operation resets when it begins
BeginOperation(o, cfg, dr) ==
    /\ op' = o /\ config' = cfg /\ dry_run' = dr
    /\ diff_result' = <<>> /\ command_plan' = <<>>
    /\ attempt' = 0 /\ opened' = {} /\ sent' = {} /\ faults' = FALSE
    /\ queue' = <<>>
    /\ options' = engine_options(dr)
    /\ wire' = <<>> /\ trace' = NoTrace /\ cancelled' = FALSE
    /\ UNCHANGED <<live, live0, ctx, walk, telnet, connected, device, fanoutVars, storeVars, unitVars>>

\* ConfigEngine.apply_config up to its first contact with the device
apply_config(cfg, dr) ==
    /\ BeginOperation("apply", cfg, dr)
    /\ again' = RepeatsLast(cfg)
    /\ IF ParseError(cfg)
       THEN /\ desired' = NoDesired
            /\ result' = [ExecuteResult(dr) EXCEPT !.error = "parse"]
            /\ raised' = FALSE
            /\ pc' = "done"
       ELSE IF get_device_config(parse(cfg).device_id) = <<>>
       THEN /\ desired' = parse(cfg)
            /\ result' = ExecuteResult(dr)
            /\ raised' = TRUE
            /\ pc' = "done"
       ELSE LET device_type == get_device_config(parse(cfg).device_id)[1].type
                validation == validate(device_type, parse(cfg))
            IN  /\ desired' = parse(cfg)
                /\ raised' = FALSE
                /\ IF after_validate(validation) = "return"
                   THEN /\ result' = [ExecuteResult(dr) EXCEPT
                                         !.error = "validation",
                                         !.error_context = validation.errors]
                        /\ pc' = "done"
                   ELSE /\ result' = [ExecuteResult(dr) EXCEPT
                                         !.recovery_attempts = validation.warnings]
                        /\ pc' = "diff_connect"

ApplyConfig ==
    /\ pc = "idle"
    /\ \E ids \in DistinctSeqs(VlanIds, Cardinality(VlanIds)) :
       \E act \in [DOMAIN ids -> Actions] :
       \E E \in SubsetsUpTo(DesiredDetails(ids, act, EngineTokens, {}),
                            MaxDetails - TableDetails(live, VlanIds)) :
       \E defect \in Defects :
       \E dr \in BOOLEAN :
          /\ defect # "none" => E = {}
          /\ defect \in {"bad_key", "bad_action"} => ids # <<>>
          /\ NoRepeatedPort(E)
          /\ apply_config(BuildConfig(ids, act, E, defect), dr)

\* the caller applies the desired state it has just applied, once more
ApplyAgain ==
    /\ pc = "done"
    /\ RepeatsLast(config)
    /\ apply_config(config, FALSE)

\* handle_apply_config: the operation's outcome goes back to the caller
Return ==
    /\ pc = "done"
    /\ op' = "none" /\ pc' = "idle" /\ config' = NoConfig /\ dry_run' = FALSE
    /\ diff_result' = <<>> /\ command_plan' = <<>> /\ result' = ExecuteResult(FALSE)
    /\ raised' = FALSE /\ attempt' = 0 /\ opened' = {} /\ sent' = {}
    /\ again' = FALSE /\ faults' = FALSE
    /\ desired' = NoDesired /\ queue' = <<>>
    /\ options' = engine_options(FALSE)
    /\ wire' = <<>> /\ trace' = NoTrace /\ cancelled' = FALSE
    /\ UNCHANGED <<live, live0, ctx, walk, telnet, connected, device, fanoutVars, storeVars, unitVars>>

\* ConfigEngine.diff up to its contact with the device
engine_diff(ds) ==
    /\ BeginOperation("diff", NoConfig, FALSE)
    /\ again' = FALSE
    /\ desired' = ds
    /\ result' = ExecuteResult(FALSE)
    /\ IF get_device_config(ds.device_id) = <<>>
       THEN raised' = TRUE /\ pc' = "done"
       ELSE raised' = FALSE /\ pc' = "diff_connect"

EngineDiff ==
    /\ pc = "idle"
    /\ \E ids \in DistinctSeqs(VlanIds, Cardinality(VlanIds)) :
       \E act \in [DOMAIN ids -> Actions] :
       \E E \in SubsetsUpTo(DesiredDetails(ids, act, EngineTokens, {}),
                            MaxDetails - TableDetails(live, VlanIds)) :
       \E defect \in {"none", "unknown_device"} :
          /\ defect # "none" => E = {}
          /\ NoRepeatedPort(E)
          /\ engine_diff(parse(BuildConfig(ids, act, E, defect)))

\* NetworkDevice.__aenter__: one attempt of BrocadeDevice.connect under with_retry.
\* Every attempt puts a new BrocadeTelnet, with a new socket, in _telnet; a
\* failed attempt raises and leaves it there.
Connect ==
    /\ pc \in {"diff_connect", "exec_connect"}
    /\ \E outcome \in {"ok", "fail"} :
        LET d == desired.device_id
        IN  /\ telnet' = [telnet EXCEPT ![d] = "open"]
            /\ opened' = opened \cup {IF pc = "diff_connect" THEN "read" ELSE "write"}
            /\ IF outcome = "ok"
               THEN /\ connected' = [connected EXCEPT ![d] = TRUE]
                    /\ attempt' = 0
                    /\ pc' = IF pc = "diff_connect" THEN "diff_read"
                             ELSE IF queue # <<>> THEN "exec_pre" ELSE "exec_main"
                    /\ UNCHANGED <<result, raised, faults>>
               ELSE /\ faults' = TRUE
                    /\ UNCHANGED connected
                    /\ IF attempt + 1 < MaxConnectAttempts
                       THEN /\ attempt' = attempt + 1
                            /\ UNCHANGED <<pc, result, raised>>
                       ELSE \* the exception leaves __aenter__: __aexit__ does not run
                            /\ attempt' = 0
                            /\ pc' = "done"
                            /\ raised' = (op = "diff")
                            /\ result' =
                                 IF op = "diff" THEN result
                                 ELSE IF pc = "diff_connect"
                                 THEN [result EXCEPT !.error = "state",
                                                     !.requires_ai_intervention = TRUE]
                                 ELSE [ExecuteResult(FALSE) EXCEPT
                                          !.error = "exception",
                                          !.requires_ai_intervention = TRUE]
    /\ UNCHANGED <<desired, live, live0, ctx, queue, walk, op, config, dry_run,
                   diff_result, command_plan, sent, again, executorVars,
                   fanoutVars, storeVars, unitVars>>

\* DiffEngine.calculate inside the read scope, __aexit__, and what apply_config
\* does with the diff up to the executor's first contact with the device
DiffRead ==
    /\ pc = "diff_read"
    /\ \E outcome \in {"ok", "error", "raise"} :
        LET d == desired.device_id
            current_vlans == IF outcome = "ok" THEN get_vlans(live) ELSE {}
            diff == calculate(desired, current_vlans)
            plans == generate(get_device_config(d)[1].type, diff)
        IN  /\ sent' = sent \cup (IF outcome = "raise" THEN {Show("show_vlan")} ELSE ReadCommands)
            /\ faults' = (faults \/ outcome # "ok")
            /\ telnet' = [telnet EXCEPT ![d] = "none"]
            /\ connected' = [connected EXCEPT ![d] = FALSE]
            /\ pc' = IF outcome # "raise" /\ op = "apply" /\ ~no_change(diff)
                        /\ plans # <<>> /\ execute_entry(dry_run) = "connect"
                     THEN "exec_connect" ELSE "done"
            /\ raised' = (outcome = "raise" /\ op = "diff")
            /\ diff_result' = IF outcome = "raise" THEN <<>> ELSE <<diff>>
            /\ command_plan' = IF outcome # "raise" /\ op = "apply" /\ ~no_change(diff)
                               THEN plans ELSE <<>>
            /\ queue' = IF outcome # "raise" /\ op = "apply" /\ ~no_change(diff)
                           /\ plans # <<>> /\ execute_entry(dry_run) = "connect"
                        THEN pre_phase(plans[1]) ELSE <<>>
            /\ result' =
                 CASE op = "diff" -> result
                   [] outcome = "raise" ->
                        [result EXCEPT !.error = "state", !.requires_ai_intervention = TRUE]
                   [] no_change(diff) ->
                        [result EXCEPT !.success = TRUE, !.changes_made = "no_changes"]
                   [] plans = <<>> ->
                        [result EXCEPT !.error = "generation", !.requires_ai_intervention = TRUE]
                   [] execute_entry(dry_run) = "dry_run" -> dry_run_result(plans[1])
                   [] OTHER -> result
    /\ UNCHANGED <<desired, live, live0, ctx, walk, op, config, dry_run, attempt,
                   opened, again, executorVars, fanoutVars, storeVars, unitVars>>

\* ConfigExecutor._execute_commands, one pre-command through device.execute.
\* A cancellation (asyncio.CancelledError) passes every "except Exception".
ExecPre ==
    /\ pc = "exec_pre"
    /\ \E outcome \in {"ok", "error", "raise", "cancel"} :
        LET d == desired.device_id
            step == execute_commands(outcome)
        IN  /\ sent' = sent \cup {Head(queue)}
            /\ wire' = Append(wire, Head(queue))
            /\ trace' = [trace EXCEPT !.pre = outcome]
            /\ IF step = "next"
               THEN /\ queue' = Tail(queue)
                    /\ pc' = IF Tail(queue) = <<>> THEN "exec_main" ELSE "exec_pre"
                    /\ UNCHANGED <<result, raised, cancelled, faults, telnet, connected>>
               ELSE \* "Pre-command failed", returned from inside the scope; or
                    \* the CancelledError leaves execute through the scope
                    /\ queue' = <<>>
                    /\ pc' = "done"
                    /\ faults' = TRUE
                    /\ raised' = (step = "propagate")
                    /\ cancelled' = (step = "propagate")
                    /\ result' = IF step = "propagate" THEN ExecuteResult(FALSE)
                                 ELSE pre_failure(ExecuteResult(FALSE), command_plan[1])
                    /\ telnet' = [telnet EXCEPT ![d] = "none"]
                    /\ connected' = [connected EXCEPT ![d] = FALSE]
    /\ UNCHANGED <<desired, live, live0, ctx, walk, op, config, dry_run, diff_result,
                   command_plan, attempt, opened, again, options, device,
                   fanoutVars, storeVars, unitVars>>

\* ConfigExecutor.execute from the main batch to the end of the scope: the
\* batch, the rollback after a failed batch, the post-commands.  The table a
\* failed rollback leaves on the switch is not modelled.
ExecMain ==
    /\ pc = "exec_main"
    /\ LET d == desired.device_id
           plan == command_plan[1]
           main == plan.main_commands
           post == plan.post_commands
           supported == "execute_config_batch" \in MethodsOf(device)
           after_pre == [ExecuteResult(FALSE) EXCEPT !.commands_executed = plan.pre_commands]
           after_main == [after_pre EXCEPT !.commands_executed = @ \o main]
       IN  \E ending \in BatchEndings(main, supported) :
           \E rb \in {"none", "ok", "failed", "raised"} :
           \E failing \in 0..Len(post) :
              LET how == ending[1]
                  posted == how \in {"ok", "skipped"}
                  received == BatchReceived(main, ending, options.stop_on_error)
                  applied == BatchApplied(main, ending, options.stop_on_error)
                  rolled == IF rb \in {"ok", "failed"} THEN plan.rollback_commands ELSE <<>>
                  saved == IF ~posted THEN <<>>
                           ELSE IF failing = 0 THEN post ELSE SubSeq(post, 1, failing)
              IN  /\ (rb # "none") <=> (how = "failed" /\ rollback_wanted(options, plan))
                  /\ ~posted => failing = 0
                  /\ result' =
                       CASE how \in {"unsupported", "raised"} -> exception_result(after_pre)
                         [] how = "cancelled" -> after_pre
                         [] how = "failed" ->
                              IF rb = "none" THEN main_failure(after_main, ending[2])
                              ELSE attempt_rollback(main_failure(after_main, ending[2]), rb)
                         [] how = "ok" -> post_phase(after_main, plan, failing)
                         [] OTHER -> post_phase(after_pre, plan, failing)
                  /\ wire' = wire \o received \o saved
                  /\ sent' = sent \cup SeqRange(received) \cup SeqRange(rolled)
                                  \cup SeqRange(saved)
                  /\ trace' = [pre |-> trace.pre,
                               main |-> how,
                               at |-> ending[2],
                               rollback |-> rb,
                               rollback_sent |-> rolled,
                               post |-> IF ~posted \/ post = <<>> THEN "none"
                                        ELSE IF failing = 0 THEN "ok" ELSE "failed"]
                  /\ live' = ApplyAll(live, ctx,
                                      applied
                                      \o (IF rb = "ok" THEN plan.rollback_commands ELSE <<>>)
                                      \o (IF posted /\ failing = 0 THEN post ELSE <<>>))
                  /\ ctx' = IF how = "unsupported" THEN ctx ELSE 0
                  /\ raised' = (how = "cancelled")
                  /\ cancelled' = (how = "cancelled")
                  /\ faults' = (faults \/ how \in {"failed", "raised", "cancelled"}
                                       \/ rb \in {"failed", "raised"} \/ failing # 0)
           /\ telnet' = [telnet EXCEPT ![d] = "none"]
           /\ connected' = [connected EXCEPT ![d] = FALSE]
           /\ pc' = "done"
    /\ UNCHANGED <<desired, live0, queue, walk, op, config, dry_run, diff_result,
                   command_plan, attempt, opened, again, options, device,
                   fanoutVars, storeVars, unitVars>>

Next ==
    \/ ApplyConfig \/ ApplyAgain \/ EngineDiff \/ Return
    \/ Connect \/ DiffRead \/ ExecPre \/ ExecMain

Spec == Init /\ [][Next]_vars

----------------------------------------------------------------------------
(* SpecExec: ConfigExecutor.execute called with a plan of the generator, any *)
(* ExecuteOptions and a device object of either class.                       *)

InitExec ==
    \E present \in SUBSET VlanIds :
    \E E \in SubsetsUpTo(LiveDetails(present, EnginePorts), MaxDetails) :
    \E ids \in DistinctSeqs(VlanIds, Cardinality(VlanIds)) :
    \E act \in [DOMAIN ids -> Actions] :
    \E F \in SubsetsUpTo(DesiredDetails(ids, act, EngineTokens, {}),
                         MaxDetails - Cardinality(E)) :
    \E opts \in [dry_run : BOOLEAN, stop_on_error : BOOLEAN, rollback_on_error : BOOLEAN] :
    \E class \in DeviceClasses :
        LET table == BuildLive(present, E)
            ds == parse(BuildConfig(ids, act, F, "none"))
            diff == calculate(ds, get_vlans(table))
            plan == generate_brocade(diff, TRUE)
        IN  /\ NoRepeatedPort(F)
            /\ ~no_change(diff)
            /\ live = table /\ live0 = table /\ desired = ds
            /\ ctx = 0 /\ walk = "idle"
            /\ op = "execute" /\ config = NoConfig /\ dry_run = opts.dry_run
            /\ options = opts /\ device = class
            /\ diff_result = <<diff>> /\ command_plan = <<plan>>
            /\ IF execute_entry(opts.dry_run) = "dry_run"
               THEN pc = "done" /\ queue = <<>> /\ result = dry_run_result(plan)
               ELSE /\ pc = "exec_connect"
                    /\ queue = pre_phase(plan)
                    /\ result = ExecuteResult(FALSE)
            /\ raised = FALSE /\ attempt = 0 /\ opened = {} /\ sent = {}
            /\ again = FALSE /\ faults = FALSE
            /\ wire = <<>> /\ trace = NoTrace /\ cancelled = FALSE
            /\ DevicesIdle /\ FanoutIdle /\ StoreIdle /\ UnitIdle

NextExec == Connect \/ ExecPre \/ ExecMain

SpecExec == InitExec /\ [][NextExec]_vars

----------------------------------------------------------------------------
(* SpecStore: a ConfigStore with git enabled, and what its callers may ask  *)
(* of it: the save of any body, the restore of a revision, the deletion of  *)
(* a file.                                                                  *)

\* saves (restores among them) of one run
MaxSaves == 3

\* ConfigStore.save_desired_config and the GitManager.commit it ends with
save_desired_config(device_id, body, source, what, back) ==
    LET existing == get_desired_config(working, device_id)
        stored == StoredConfig(device_id, body, next_version(existing), Checksum(body),
                               <<"now", clock + 1>>, source)
        files == [working EXCEPT ![device_id] = <<to_yaml(stored)>>]
        noop == nothing_staged(files, head, device_id)
        tree == IF noop THEN head ELSE [head EXCEPT ![device_id] = files[device_id]]
    IN  /\ working' = files
        /\ head' = tree
        /\ log' = IF noop THEN log ELSE Append(log, [file |-> device_id, tree |-> tree])
        /\ clock' = clock + 1
        /\ saves' = [saves EXCEPT ![device_id] = @ + 1]
        /\ returned' = [op |-> what, device_id |-> device_id, stored |-> <<stored>>,
                        commit |-> IF noop THEN "none" ELSE "hash",
                        written |-> files[device_id], head_before |-> head[device_id],
                        existing |-> existing, log_before |-> Len(log),
                        revision |-> back]
        /\ UNCHANGED deleted

SaveDesiredConfig ==
    /\ clock < MaxSaves
    /\ \E d \in Devices, body \in Bodies : save_desired_config(d, body, "manual", "save", 0)
    /\ UNCHANGED <<desired, live, live0, ctx, queue, walk, engineVars, telnet, connected,
                   fanoutVars, unitVars>>

\* ConfigStore.restore_config_from_revision(device_id, "HEAD~back")
RestoreConfigFromRevision ==
    /\ clock < MaxSaves
    /\ \E d \in Devices, back \in 0..(Len(log) + 1) :
         LET content == get_file_at_revision(log, d, back)
         IN  IF content = NoFile
             THEN /\ returned' = [NoReturn EXCEPT !.op = "restore", !.device_id = d,
                                                  !.log_before = Len(log),
                                                  !.revision = back]
                  /\ UNCHANGED <<working, head, log, clock, saves, deleted>>
             ELSE save_desired_config(d, from_yaml(content[1], d).config, "restore",
                                      "restore", back)
    /\ UNCHANGED <<desired, live, live0, ctx, queue, walk, engineVars, telnet, connected,
                   fanoutVars, unitVars>>

\* ConfigStore.delete_desired_config: the file leaves the working tree; git
\* is not told
DeleteDesiredConfig ==
    /\ \E d \in Devices :
         /\ working[d] # NoFile
         /\ working' = [working EXCEPT ![d] = NoFile]
         /\ deleted' = deleted \cup {d}
         /\ returned' = [NoReturn EXCEPT !.op = "delete", !.device_id = d,
                                         !.log_before = Len(log)]
    /\ UNCHANGED <<head, log, clock, saves>>
    /\ UNCHANGED <<desired, live, live0, ctx, queue, walk, engineVars, telnet, connected,
                   fanoutVars, unitVars>>

InitStore ==
    /\ StoreIdle /\ UnitIdle /\ EngineIdle /\ DevicesIdle /\ FanoutIdle
    /\ desired = NoDesired
    /\ live = [v \in VlanIds |-> AbsentVlan]
    /\ live0 = [v \in VlanIds |-> AbsentVlan]
    /\ ctx = 0 /\ queue = <<>> /\ walk = "idle"

NextStore == SaveDesiredConfig \/ RestoreConfigFromRevision \/ DeleteDesiredConfig

SpecStore == InitStore /\ [][NextStore]_vars

----------------------------------------------------------------------------
(* utils/connection.py and BrocadeDevice.execute: the retry decorator and   *)
(* one attempt of a command.  An exception is named by its class; "" stands *)
(* for a call that returned.  ConnectionError and socket.timeout are        *)
(* OSErrors.                                                                *)

RETRYABLE_EXCEPTIONS ==
    {"ConnectionRefusedError", "ConnectionResetError", "TimeoutError", "OSError", "EOFError"}

\* @with_retry(max_attempts=3) of BrocadeDevice.execute
MaxExecuteAttempts == 3

\* a decorator that allows one attempt more than max_attempts
with_retry_once_more(max_attempts, made, exc) ==
    IF exc = "" THEN "return"
    ELSE IF exc \in RETRYABLE_EXCEPTIONS /\ made < max_attempts + 1 THEN "retry"
    ELSE "reraise"

\* with_retry: what the decorated call does once its made-th attempt has ended
\* with exc (stop_after_attempt, retry_if_exception_type, reraise=True)
with_retry(max_attempts, made, exc) ==
    IF exc = "" THEN "return"
    ELSE IF exc \in RETRYABLE_EXCEPTIONS /\ made < max_attempts THEN "retry"
    ELSE "reraise"

\* what the device does with a command: it answers ("ok"), it answers with
\* error output ("error"), the transmission fails before the command reaches
\* it ("unsent"), or the command reaches it and a later transmission of the
\* same send_command (the space that answers --More--) fails ("lost")
DeviceAnswers == {"ok", "error", "unsent", "lost"}

\* an execute that raises when the device answers with error output
execute_body_raising(has_telnet, answer) ==
    IF ~has_telnet THEN [raises |-> "OSError", value |-> <<>>, reached |-> FALSE]
    ELSE CASE answer = "ok" -> [raises |-> "", value |-> <<TRUE, <<"output">>>>, reached |-> TRUE]
           [] answer = "error" -> [raises |-> "OSError", value |-> <<>>, reached |-> TRUE]
           [] answer = "lost" -> [raises |-> "OSError", value |-> <<>>, reached |-> TRUE]
           [] OTHER -> [raises |-> "OSError", value |-> <<>>, reached |-> FALSE]

\* the body of BrocadeDevice.execute, one attempt: the exception it raises or
\* the (success, output) it returns, and whether the command reached the device
execute_body(has_telnet, answer) ==
    IF ~has_telnet THEN [raises |-> "OSError", value |-> <<>>, reached |-> FALSE]
    ELSE CASE answer = "ok" -> [raises |-> "", value |-> <<TRUE, <<"output">>>>, reached |-> TRUE]
           [] answer = "error" ->
                [raises |-> "", value |-> <<FALSE, <<"error_output">>>>, reached |-> TRUE]
           [] answer = "lost" -> [raises |-> "OSError", value |-> <<>>, reached |-> TRUE]
           [] OTHER -> [raises |-> "OSError", value |-> <<>>, reached |-> FALSE]

----------------------------------------------------------------------------
(* SpecFanout: handle_batch_command, one task per listed device id, all     *)
(* gathered; the tasks of one device id share the inventory's one instance. *)

\* device ids one batch request may list
MaxTasks == 2

RECURSIVE SeqsUpTo(_, _)
SeqsUpTo(S, n) ==
    IF n = 0 THEN {<<>>}
    ELSE SeqsUpTo(S, n - 1) \cup {Append(q, x) : q \in SeqsUpTo(S, n - 1), x \in S}

\* DeviceInventory.get_device_ids: the keys of the inventory, in file order
get_device_ids == <<"br-a", "br-b">>

\* what a request may list: a device of the inventory, an unknown id, "all"
RequestIds == Devices \cup {"ghost", "all"}

\* the device ids handle_batch_command works on
batch_device_ids(request) ==
    IF \E i \in DOMAIN request : request[i] = "all" THEN get_device_ids ELSE request

NoCalls == [sent |-> 0, errors |-> 0]

\* the dicts run_on_device returns
TaskReturn(did, value) == [device_id |-> did, success |-> value[1], output |-> value[2]]

\* the dict of "except Exception": the output is str(e), here the call that raised
TaskFailure(did, call) == TaskReturn(did, <<FALSE, <<"exception", call>>>>)

InitFanout ==
    \E request \in SeqsUpTo(RequestIds, MaxTasks) \ {<<>>} :
        LET ids == batch_device_ids(request)
        IN  /\ taskDev = ids
            /\ taskPc = [i \in DOMAIN ids |-> "start"]
            /\ taskTry = [i \in DOMAIN ids |-> 0]
            /\ taskCalls = [i \in DOMAIN ids |-> NoCalls]
            /\ taskResult = [i \in DOMAIN ids |-> <<>>]
            /\ response = <<>>
            /\ DevicesIdle /\ EngineIdle /\ StoreIdle /\ UnitIdle
            /\ desired = NoDesired
            /\ live = [v \in VlanIds |-> AbsentVlan]
            /\ live0 = [v \in VlanIds |-> AbsentVlan]
            /\ ctx = 0 /\ queue = <<>> /\ walk = "idle"

\* run_on_device: get_device and __aenter__, one attempt of connect.  Every
\* attempt puts a new BrocadeTelnet in _telnet; a failed attempt leaves it there.
TaskConnect(t) ==
    /\ taskPc[t] = "start"
    /\ IF get_device_config(taskDev[t]) = <<>>
       THEN \* get_device raises KeyError, "except Exception" returns the failure
            /\ taskPc' = [taskPc EXCEPT ![t] = "done"]
            /\ taskResult' = [taskResult EXCEPT ![t] = <<TaskFailure(taskDev[t], "get_device")>>]
            /\ UNCHANGED <<telnet, connected, taskTry, taskCalls>>
       ELSE \E exc \in {""} \cup RETRYABLE_EXCEPTIONS :
              LET decision == with_retry(MaxConnectAttempts, taskTry[t] + 1, exc)
              IN  /\ telnet' = [telnet EXCEPT ![taskDev[t]] = "open"]
                  /\ connected' = IF exc = "" THEN [connected EXCEPT ![taskDev[t]] = TRUE]
                                  ELSE connected
                  /\ taskTry' = [taskTry EXCEPT ![t] = IF decision = "return" THEN 0 ELSE @ + 1]
                  /\ taskPc' = [taskPc EXCEPT ![t] =
                                   CASE decision = "return" -> "inside"
                                     [] decision = "retry" -> "start"
                                     [] OTHER -> "done"]
                  /\ taskResult' = IF decision = "reraise"
                                   THEN [taskResult EXCEPT
                                           ![t] = <<TaskFailure(taskDev[t], "connect")>>]
                                   ELSE taskResult
                  /\ UNCHANGED taskCalls
    /\ UNCHANGED <<desired, live, live0, ctx, queue, walk, engineVars, taskDev, response,
                   storeVars, unitVars>>

\* run_on_device: device.execute(command) inside the scope, one attempt
TaskExecute(t) ==
    /\ taskPc[t] = "inside"
    /\ \E answer \in DeviceAnswers :
        LET d == taskDev[t]
            body == execute_body(telnet[d] # "none", answer)
            decision == with_retry(MaxExecuteAttempts, taskTry[t] + 1, body.raises)
        IN  /\ telnet[d] = "none" => answer = "unsent"
            /\ taskCalls' = [taskCalls EXCEPT
                                ![t].sent = @ + (IF body.reached THEN 1 ELSE 0),
                                ![t].errors = @ + (IF body.reached /\ answer = "error"
                                                   THEN 1 ELSE 0)]
            /\ connected' = IF body.raises # "" /\ telnet[d] # "none"
                            THEN [connected EXCEPT ![d] = FALSE]
                            ELSE connected
            /\ taskTry' = [taskTry EXCEPT ![t] = IF decision = "return" THEN @ ELSE @ + 1]
            /\ taskPc' = [taskPc EXCEPT ![t] = IF decision = "retry" THEN "inside"
                                               ELSE "exiting"]
            /\ taskResult' =
                 CASE decision = "return" ->
                        [taskResult EXCEPT ![t] = <<TaskReturn(d, body.value)>>]
                   [] decision = "reraise" ->
                        [taskResult EXCEPT ![t] = <<TaskFailure(d, "execute")>>]
                   [] OTHER -> taskResult
    /\ UNCHANGED <<desired, live, live0, ctx, queue, walk, engineVars, telnet,
                   taskDev, response, storeVars, unitVars>>

\* run_on_device: __aexit__, BrocadeDevice.disconnect
TaskExit(t) ==
    /\ taskPc[t] = "exiting"
    /\ telnet' = [telnet EXCEPT ![taskDev[t]] = "none"]
    /\ connected' = [connected EXCEPT ![taskDev[t]] = FALSE]
    /\ taskPc' = [taskPc EXCEPT ![t] = "done"]
    /\ UNCHANGED <<desired, live, live0, ctx, queue, walk, engineVars, taskDev, taskTry,
                   taskCalls, taskResult, response, storeVars, unitVars>>

\* a gather that returns as soon as one task is done
gather_ready_first(pcs) == \E t \in DOMAIN pcs : pcs[t] = "done"

\* "results = await asyncio.gather(*tasks)": every task is done
gather_ready(pcs) == \A t \in DOMAIN pcs : pcs[t] = "done"

\* handle_batch_command returns the results, one per task, in the order of
\* the device ids
Gather ==
    /\ response = <<>>
    /\ gather_ready(taskPc)
    /\ response' = <<[t \in DOMAIN taskDev |-> taskResult[t]]>>
    /\ UNCHANGED <<desired, live, live0, ctx, queue, walk, engineVars, telnet, connected,
                   taskDev, taskPc, taskTry, taskCalls, taskResult, storeVars, unitVars>>

NextFanout ==
    \/ \E t \in DOMAIN taskDev : TaskConnect(t) \/ TaskExecute(t) \/ TaskExit(t)
    \/ Gather

SpecFanout == InitFanout /\ [][NextFanout]_vars

----------------------------------------------------------------------------
(* SpecUnit: functions of the parser and of the generator, each called on   *)
(* every input within the bounds.                                           *)

\* devices/brocade.py, batch execution.  The consolidated output of a batch is
\* a sequence of lines: <<"echo", k>> is the echo of the k-th command,
\* <<"out", kind>> a line of output ("info", or "error" for a line that
\* _has_error recognises); prompt lines are skipped by the parser and left out.
\* A command of the batch is named by its position.

BatchResult(command, success, executed) ==
    [command |-> command, success |-> success, executed |-> executed]

\* _has_error on the accumulated lines of one slice
has_error(output_lines) == \E i \in DOMAIN output_lines : output_lines[i] = "error"

\* the end of _parse_batch_output: the result of the last command echoed, then
\* one successful result per missing place
RECURSIVE PadResults(_, _)
PadResults(results, n) ==
    IF Len(results) >= n THEN results
    ELSE PadResults(Append(results, BatchResult(Len(results) + 1, TRUE, TRUE)), n)

\* a parser that goes on after an error whatever stop_on_error says
RECURSIVE parse_batch_lines_never_stopping(_, _, _, _, _, _)
parse_batch_lines_never_stopping(lines, n, stop_on_error, idx, current, results) ==
    IF lines = <<>>
    THEN PadResults(IF idx > 0
                    THEN Append(results, BatchResult(idx, ~has_error(current), TRUE))
                    ELSE results, n)
    ELSE LET line == Head(lines)
         IN  IF idx < n /\ line = <<"echo", idx + 1>>
             THEN parse_batch_lines_never_stopping(
                      Tail(lines), n, stop_on_error, idx + 1, <<>>,
                      IF idx > 0 /\ current # <<>>
                      THEN Append(results, BatchResult(idx, ~has_error(current), TRUE))
                      ELSE results)
             ELSE parse_batch_lines_never_stopping(
                      Tail(lines), n, stop_on_error, idx, Append(current, line[2]), results)

\* the loop of _parse_batch_output over the lines: idx is current_cmd_idx,
\* current the accumulated output lines
RECURSIVE parse_batch_lines(_, _, _, _, _, _)
parse_batch_lines(lines, n, stop_on_error, idx, current, results) ==
    IF lines = <<>>
    THEN PadResults(IF idx > 0
                    THEN Append(results, BatchResult(idx, ~has_error(current), TRUE))
                    ELSE results, n)
    ELSE LET line == Head(lines)
         IN  IF idx < n /\ line = <<"echo", idx + 1>>
             THEN IF idx > 0 /\ current # <<>>
                  THEN LET saved == Append(results,
                                           BatchResult(idx, ~has_error(current), TRUE))
                       IN  IF has_error(current) /\ stop_on_error
                           THEN saved \o [k \in 1..(n - idx) |->
                                             BatchResult(idx + k, FALSE, FALSE)]
                           ELSE parse_batch_lines(Tail(lines), n, stop_on_error,
                                                  idx + 1, <<>>, saved)
                  ELSE parse_batch_lines(Tail(lines), n, stop_on_error,
                                         idx + 1, <<>>, results)
             ELSE parse_batch_lines(Tail(lines), n, stop_on_error, idx,
                                    Append(current, line[2]), results)

\* the lines the switch answers a batch with: per command its echo and its
\* slice ("none": no line, "info": a line, "error": an error line)
BatchLines(slices) ==
    Flatten([k \in DOMAIN slices |->
                <<<<"echo", k>>>> \o (IF slices[k] = "none" THEN <<>>
                                     ELSE <<<<"out", slices[k]>>>>)])

\* BrocadeDevice.execute_batch on a connected device whose send_command
\* returned: (overall_success, per-command results)
execute_batch(slices, stop_on_error) ==
    IF slices = <<>> THEN [overall_success |-> TRUE, results |-> <<>>]
    ELSE LET results == parse_batch_lines(BatchLines(slices), Len(slices),
                                          stop_on_error, 0, <<>>, <<>>)
         IN  [overall_success |-> \A i \in DOMAIN results : results[i].success,
              results |-> results]

\* the longest batch
MaxBatch == 3

\* config_store/store.py, drift detection.  The items of a report are kept as
\* a set of <<drift type, VLAN id, detail>>.

\* ConfigStore._expand_ports: the identifiers of a list of port tokens
expand_ports(tokens) ==
    UNION {IF tok.last = 0 THEN {tok.base}
           ELSE {<<tok.base[1], tok.base[2], i>> : i \in tok.base[3]..tok.last} :
           tok \in tokens}

\* ConfigStore._check_vlan_drift
check_vlan_drift(vlan_id, d, actual) ==
    LET desired_untagged == expand_ports(d.untagged_ports)
        desired_tagged == expand_ports(d.tagged_ports)
    IN  (IF desired_untagged \ actual.untagged_ports # {}
         THEN {<<"modified", vlan_id, "missing_untagged">>} ELSE {})
        \cup (IF actual.untagged_ports \ desired_untagged # {} /\ desired_untagged # {}
              THEN {<<"modified", vlan_id, "extra_untagged">>} ELSE {})
        \cup (IF desired_tagged \ actual.tagged_ports # {}
              THEN {<<"modified", vlan_id, "missing_tagged">>} ELSE {})

\* ConfigStore.calculate_drift, given the stored config dict (<<>> for a device
\* with no desired config) and the VLANs read from the device; the config
\* dicts of the inputs list no port
calculate_drift(stored, actual_vlans) ==
    IF stored = <<>> THEN [in_sync |-> TRUE, items |-> {}]
    ELSE LET desired_vlans == stored[1].vlans
             listed == {desired_vlans[i].key.value : i \in DOMAIN desired_vlans}
             items ==
                 UNION {LET vlan_id == desired_vlans[i].key.value
                            actual_vlan == CurrentVlan(actual_vlans, vlan_id)
                        IN  IF actual_vlan = NoVlan
                            THEN {<<"missing", vlan_id, "vlan">>}
                            ELSE check_vlan_drift(vlan_id, desired_vlans[i], actual_vlan) :
                        i \in DOMAIN desired_vlans}
                 \cup {<<"extra", v.id, "vlan">> :
                          v \in {w \in actual_vlans : w.id \notin listed /\ w.id # 1}}
         IN  [in_sync |-> items = {}, items |-> items]

\* the port tokens of the stored configs
DriftTokens == {Token(p, 0) : p \in BrocadePorts} \cup {Token(<<1, 1, 1>>, MaxPos)}

\* the ports 1/1/1 .. 1/1/MaxPort and 1/2/1 .. 1/2/MaxPort
MaxPort == 4

GroupPorts == {<<1, m, p>> : m \in {1, 2}, p \in 1..MaxPort}

\* the range tokens "1/m/c-d"
RangeTokens == {Token(<<1, m, c>>, d) : m \in {1, 2}, c \in 1..MaxPort, d \in 1..MaxPort}

\* the modify changes the diff engine makes of a VLAN of the switch
ModifyChanges ==
    {c \in {diff_vlan(100, VLANDesiredState(100, "ensure", NoName, dU, dT),
                       VLANConfig(100, <<"Old">>, cU, cT)) :
               dU \in SUBSET BrocadePorts, dT \in SUBSET BrocadePorts,
               cU \in SUBSET BrocadePorts, cT \in SUBSET BrocadePorts} :
        c.change_type = "modify"}

\* the port whose attributes the desired state lists, as the switch may hold it
\* and as the desired state may want it
PortEntries ==
    {PortEntry(e, dsc, sp) :
        e \in BOOLEAN, dsc \in {"", "uplink"}, sp \in {"auto", "1000-full"}}

PortIntents ==
    {PortDesiredState(<<1, 1, 1>>, e, dsc, sp) :
        e \in {<<>>, <<TRUE>>, <<FALSE>>},
        dsc \in {<<>>, <<"">>, <<"uplink">>},
        sp \in {<<>>, <<"auto">>, <<"1G">>}}

\* DiffEngine.calculate for a desired state that lists one port and no VLAN
calculate_ports(d, current_ports) ==
    [vlan_changes |-> <<>>,
     port_changes |->
        diff_port(d.name, d,
                  IF \E c \in current_ports : c.name = d.name
                  THEN <<CHOOSE c \in current_ports : c.name = d.name>>
                  ELSE <<>>)]

Call(fn, arg) == [fn |-> fn, arg |-> arg]

\* a call of _generate_brocade: the diff, and the switch it was calculated on
GenerateCall(diff, vlans, ports) ==
    Call("generate_brocade", [diff |-> diff, vlans |-> vlans, ports |-> ports])

InitUnit ==
    /\ \/ \E S \in SUBSET GroupPorts : fn_call = Call("group_ports_by_module", S)
       \/ \E tok \in RangeTokens : fn_call = Call("expand_port_range", tok)
       \/ \E change \in ModifyChanges : fn_call = Call("brocade_vlan_commands", change)
       \/ \E ids \in DistinctSeqs(VlanIds, Cardinality(VlanIds)) :
          \E act \in [DOMAIN ids -> Actions] :
          \E present \in SUBSET VlanIds :
          \E E \in SubsetsUpTo(DesiredDetails(ids, act, BrocadePorts, {})
                                  \cup LiveDetails(present, BrocadePorts),
                               MaxDetails) :
              LET table == BuildLive(present, E)
              IN  fn_call = GenerateCall(
                                calculate(BuildDesired("br-a", ids, act, E), get_vlans(table)),
                                table,
                                [p \in {<<1, 1, 1>>} |-> PortEntry(TRUE, "", "auto")])
       \/ \E device_type \in {"brocade", "openwrt", "zyxel"} :
          \E changes \in {<<>>} \cup {<<c>> : c \in ModifyChanges} :
              fn_call = Call("generate",
                             [device_type |-> device_type,
                              diff |-> [vlan_changes |-> changes, port_changes |-> <<>>]])
       \/ \E present \in SUBSET VlanIds :
          \E E \in SubsetsUpTo(LiveDetails(present, BrocadePorts), MaxDetails) :
          \E ids \in DistinctSeqs(VlanIds, Cardinality(VlanIds)) :
          \E act \in [DOMAIN ids -> Actions] :
          \E F \in SubsetsUpTo(DesiredDetails(ids, act, DriftTokens, {}),
                               MaxDetails - Cardinality(E)) :
              fn_call = Call("calculate_drift",
                             [stored |-> <<BuildConfig(ids, act, F, "none")>>,
                              actual_vlans |-> get_vlans(BuildLive(present, E))])
       \/ \E present \in SUBSET VlanIds :
              fn_call = Call("calculate_drift",
                             [stored |-> <<>>,
                              actual_vlans |-> get_vlans(BuildLive(present, {}))])
       \/ \E slices \in SeqsUpTo({"none", "info", "error"}, MaxBatch) :
          \E stop_on_error \in BOOLEAN :
              fn_call = Call("execute_batch",
                             [slices |-> slices, stop_on_error |-> stop_on_error])
       \/ \E U \in SUBSET BrocadePorts : \E T \in SUBSET BrocadePorts :
              fn_call = Call("create_vlan", VLANConfig(100, NoName, U, T))
       \/ \E entry \in PortEntries : \E d \in PortIntents :
              LET ports == [p \in {d.name} |-> entry]
              IN  fn_call = GenerateCall(calculate_ports(d, get_ports(ports)),
                                         [v \in VlanIds |-> AbsentVlan], ports)
    /\ fn_value = <<>>
    /\ StoreIdle /\ EngineIdle /\ DevicesIdle /\ FanoutIdle
    /\ desired = NoDesired
    /\ live = [v \in VlanIds |-> AbsentVlan]
    /\ live0 = [v \in VlanIds |-> AbsentVlan]
    /\ ctx = 0 /\ queue = <<>> /\ walk = "idle"

Returns(fn, returned_value) ==
    /\ fn_call.fn = fn /\ fn_value = <<>>
    /\ fn_value' = <<returned_value>>
    /\ UNCHANGED <<desired, live, live0, ctx, queue, walk, engineVars, telnet, connected,
                   fanoutVars, storeVars, fn_call>>

\* CommandGenerator._group_ports_by_module(ports)
GroupPortsByModule ==
    Returns("group_ports_by_module", group_ports_by_module(fn_call.arg))

\* ConfigParser._expand_port_range(port_spec)
ExpandPortRange ==
    Returns("expand_port_range", expand_port_range(fn_call.arg))

\* CommandGenerator._brocade_vlan_commands(change)
BrocadeVlanCommands ==
    Returns("brocade_vlan_commands", brocade_vlan_commands(fn_call.arg))

\* CommandGenerator._generate_brocade(diff, save_config=True)
GenerateBrocade ==
    Returns("generate_brocade", generate_brocade(fn_call.arg.diff, TRUE))

\* BrocadeDevice.create_vlan(vlan), up to the call of execute_config_mode
CreateVlan ==
    Returns("create_vlan", create_vlan_commands(fn_call.arg))

\* CommandGenerator.generate(device_type, diff): <<the plan>>, or <<>> for the
\* ValueError
Generate ==
    Returns("generate", generate(fn_call.arg.device_type, fn_call.arg.diff))

\* ConfigStore.calculate_drift(device_id, actual_vlans, actual_ports): the report
CalculateDrift ==
    Returns("calculate_drift",
            calculate_drift(fn_call.arg.stored, fn_call.arg.actual_vlans))

\* BrocadeDevice.execute_batch(commands, stop_on_error)
ExecuteBatch ==
    Returns("execute_batch", execute_batch(fn_call.arg.slices, fn_call.arg.stop_on_error))

NextUnit ==
    \/ GroupPortsByModule \/ ExpandPortRange \/ BrocadeVlanCommands \/ GenerateBrocade
    \/ CreateVlan \/ Generate \/ CalculateDrift \/ ExecuteBatch

SpecUnit == InitUnit /\ [][NextUnit]_vars

----------------------------------------------------------------------------
(* Properties of the plan (SpecPlan) *)

\* C1: for a desired state that passes validation, once the whole plan (pre,
\* main, post) has been applied to the switch, the diff of the desired state
\* against the switch is empty.
C1_PlanConverges ==
    (walk = "done" /\ validate("brocade", desired).valid)
        => no_change(calculate(desired, get_vlans(live)))

MembershipsMatch(vlan, table) ==
    /\ table[vlan.id].untagged = vlan.untagged_ports
    /\ table[vlan.id].tagged = vlan.tagged_ports

\* C3 (as stated): the diff is empty iff every VLAN of the desired state is
\* either absent and not on the switch, or ensure with the memberships the
\* switch has for it.
C3_EmptyIffMemberships ==
    walk # "idle" =>
        (no_change(calculate(desired, get_vlans(live)))
            <=> \A i \in DOMAIN desired.vlans :
                   \/ desired.vlans[i].action = "absent" /\ ~live[desired.vlans[i].id].present
                   \/ desired.vlans[i].action = "ensure" /\ MembershipsMatch(desired.vlans[i], live))

\* C3 (amended): the diff is empty iff every VLAN of the desired state is
\* either absent and not on the switch, or ensure, on the switch, with the
\* memberships the switch has for it and with no name or the name the switch
\* has for it.
C3_EmptyIffMembershipsAndName ==
    walk # "idle" =>
        (no_change(calculate(desired, get_vlans(live)))
            <=> \A i \in DOMAIN desired.vlans :
                   \/ desired.vlans[i].action = "absent" /\ ~live[desired.vlans[i].id].present
                   \/ /\ desired.vlans[i].action = "ensure"
                      /\ live[desired.vlans[i].id].present
                      /\ MembershipsMatch(desired.vlans[i], live)
                      /\ desired.vlans[i].name \in {NoName, live[desired.vlans[i].id].name})

\* an empty diff for a VLAN the desired state names and gives a port, reached
\* by applying a plan
C3_Witness ==
    /\ walk = "done" /\ live # live0
    /\ no_change(calculate(desired, get_vlans(live)))
    /\ \E i \in DOMAIN desired.vlans :
          /\ desired.vlans[i].action = "ensure"
          /\ desired.vlans[i].name = <<"Old">>
          /\ desired.vlans[i].untagged_ports # {}

SingleUntagged(table) ==
    \A v \in DOMAIN table, w \in DOMAIN table :
        v # w => table[v].untagged \cap table[w].untagged = {}

\* C10: when every port is untagged in at most one VLAN before the plan runs,
\* it is so in every state the switch passes through while the plan of a
\* valid desired state runs.
C10_NoTransientDoubleUntagged ==
    (walk # "idle" /\ validate("brocade", desired).valid /\ SingleUntagged(live0))
        => SingleUntagged(live)

DesiredIds == {desired.vlans[i].id : i \in DOMAIN desired.vlans}

\* C25: every command of the plan (rollback included) that names a VLAN names
\* one the desired state lists, every membership command is taken in the
\* context of a listed VLAN, and a VLAN of the switch that the desired state
\* does not list is, while the plan runs and after it, as it was before.
C25_PatchSemantics ==
    walk # "idle" =>
        LET plan == PlanOf(desired, live0)
        IN  /\ \A cmd \in SeqRange(AllCommands(plan)) \cup SeqRange(plan.rollback_commands) :
                  cmd.op \in {"vlan_by_port", "vlan", "no_vlan", "rollback_note"}
                      => cmd.id \in DesiredIds
            /\ ctx # 0 => ctx \in DesiredIds
            /\ \A v \in VlanIds \ DesiredIds : live[v] = live0[v]

\* a plan that changed the switch and left a VLAN with members alone
C25_Witness ==
    /\ walk = "done" /\ live # live0
    /\ \E v \in VlanIds \ DesiredIds :
          /\ live0[v].present /\ live0[v].untagged # {}
          /\ live[v] = live0[v]

----------------------------------------------------------------------------
(* Properties of the engine (Spec) *)

\* C2: an apply that repeats the desired state of the apply just before it (a
\* real apply, which the device failed in nothing) computes an empty diff and
\* no command plan, and sends the device nothing but the reads.
C2_SecondApplyEmpty ==
    (op = "apply" /\ again /\ ~faults /\ diff_result # <<>>)
        => /\ no_change(diff_result[1])
           /\ (command_plan = <<>> \/ AllCommands(command_plan[1]) = <<>>)
           /\ sent \subseteq ReadCommands

\* C36: apply_config raises for no input: each apply ends with a result, and a
\* result that is not a success carries a non-empty error.
C36_ApplyNeverRaises ==
    (op = "apply" /\ pc = "done")
        => /\ ~raised
           /\ (~result.success => result.error # "")

\* C35: a real apply with a non-empty diff, during which the device failed
\* nothing, has sent the device every pre-, main and post-command of its plan
\* and returns success.
C35_CleanApplySucceeds ==
    (op = "apply" /\ pc = "done" /\ ~dry_run /\ ~faults
        /\ diff_result # <<>> /\ ~no_change(diff_result[1]) /\ command_plan # <<>>)
        => /\ wire = AllCommands(command_plan[1])
           /\ result.success

\* C5: when an operation has ended, no device holds an open transport.
C5_ScopeReleased ==
    pc = "done" => \A d \in Devices : telnet[d] = "none"

\* C6: an apply with dry-run set never enters a write scope and sends the
\* device nothing but the reads of VLANs and ports.
C6_DryRunOnlyReads ==
    (op = "apply" /\ dry_run) => ("write" \notin opened /\ sent \subseteq ReadCommands)

\* a dry run that previewed a plan with commands
C6_Witness ==
    /\ op = "apply" /\ dry_run /\ pc = "done"
    /\ result.success /\ result.dry_run
    /\ command_plan # <<>>
    /\ Len(result.commands_executed) > 0
    /\ opened = {"read"} /\ sent = ReadCommands

\* the config does not parse, or its desired state does not pass validation
Rejected(cfg) ==
    \/ ParseError(cfg)
    \/ /\ get_device_config(parse(cfg).device_id) # <<>>
       /\ ~validate(get_device_config(parse(cfg).device_id)[1].type, parse(cfg)).valid

\* C7: an apply whose config does not parse or does not pass validation ends
\* at once with a failure result that carries the error, and it enters no
\* device scope and sends no command.
C7_RejectedWithoutContact ==
    (op = "apply" /\ Rejected(config))
        => /\ pc = "done" /\ ~raised
           /\ ~result.success
           /\ result.error = (IF ParseError(config) THEN "parse" ELSE "validation")
           /\ (~ParseError(config) => result.error_context # {})
           /\ opened = {} /\ sent = {} /\ attempt = 0

\* an apply rejected for a port untagged in two VLANs
C7_Witness ==
    /\ op = "apply" /\ pc = "done"
    /\ result.error = "validation"
    /\ \E e \in result.error_context : e[1] = "untagged_conflict"

DuplicateUntagged(ds) ==
    \E i \in DOMAIN ds.vlans, j \in DOMAIN ds.vlans :
        /\ i # j
        /\ ds.vlans[i].action = "ensure" /\ ds.vlans[j].action = "ensure"
        /\ ds.vlans[i].untagged_ports \cap ds.vlans[j].untagged_ports # {}

\* C8: the desired state the diff engine is about to work on never has a port
\* untagged in two ensure VLANs.
C8_ConflictNeverDiffed ==
    pc = "diff_read" => ~DuplicateUntagged(desired)

DeleteVlan1 == Cmd("no_vlan", 1, NoName, <<>>)

C17_WarningsSurfaced ==
    (op = "apply" /\ pc = "done" /\ ~raised /\ result.success)
        => validate(get_device_config(desired.device_id)[1].type, desired).warnings
              \subseteq result.recovery_attempts

----------------------------------------------------------------------------
(* Properties of the executor (SpecExec) *)

IsPrefix(a, b) == Len(a) <= Len(b) /\ a = SubSeq(b, 1, Len(a))

Executed == op = "execute" /\ ~dry_run /\ pc = "done"

\* C11: the commands the device has received in the write scope of an apply
\* are at every moment the first commands of the plan's pre-commands, then
\* main commands, then post-commands, each list in the generator's order; an
\* apply that succeeded with no failed post-command has delivered them all.
C11_PlanOrder ==
    (op = "execute" /\ ~dry_run) =>
        /\ IsPrefix(wire, AllCommands(command_plan[1]))
        /\ (pc = "done" /\ result.success /\ trace.post # "failed")
              => wire = AllCommands(command_plan[1])

\* an apply that delivered pre-commands, a main batch and the save directive
C11_Witness ==
    /\ Executed /\ result.success
    /\ Len(command_plan[1].pre_commands) >= 3
    /\ Len(command_plan[1].main_commands) >= 3
    /\ Len(command_plan[1].post_commands) >= 1
    /\ wire = AllCommands(command_plan[1])

\* C30: the pre-commands reach the device one at a time, in the order of the
\* plan; once a pre-command has ended with an error output or an exception,
\* execute has returned a failure result that carries the error context, and
\* the device has received no later pre-command, no main command, no
\* rollback command and no post-command.
C30_PreFailureAborts ==
    (op = "execute" /\ ~dry_run) =>
        LET pre == command_plan[1].pre_commands
        IN  /\ pc = "exec_pre" => (wire \o queue = pre /\ trace.pre \in {"none", "ok"})
            /\ trace.pre \in {"error", "raise"} =>
                  /\ pc = "done"
                  /\ ~result.success
                  /\ result.error = "pre"
                  /\ result.error_context # {}
                  /\ wire # <<>> /\ IsPrefix(wire, pre)
                  /\ sent = SeqRange(wire)
                  /\ trace.main = "none" /\ trace.rollback_sent = <<>>
                  /\ trace.post = "none"

\* the second pre-command of a plan with more pre-commands, main commands and
\* a post-command has ended with an error output
C30_Witness ==
    /\ Executed /\ trace.pre = "error"
    /\ Len(wire) = 2
    /\ Len(command_plan[1].pre_commands) >= 3
    /\ command_plan[1].main_commands # <<>>
    /\ command_plan[1].post_commands # <<>>
    /\ result.error = "pre"

\* C12: after a failed main batch the rollback is attempted only when
\* rollback_on_error is set; when it is not set the device receives nothing
\* after the failed batch and the result records no rollback.
C12_RollbackOnlyIfAsked ==
    (Executed /\ trace.main = "failed") =>
        /\ trace.rollback # "none" => options.rollback_on_error
        /\ ~options.rollback_on_error =>
              /\ trace.rollback_sent = <<>>
              /\ wire = command_plan[1].pre_commands
                          \o BatchReceived(command_plan[1].main_commands,
                                           <<"failed", trace.at>>, options.stop_on_error)
              /\ result.recovery_attempts = {}
              /\ ~result.rollback_performed

\* a main batch that failed, with rollback commands in the plan and the option unset
C12_Witness ==
    /\ Executed /\ trace.main = "failed"
    /\ ~options.rollback_on_error
    /\ command_plan[1].rollback_commands # <<>>
    /\ command_plan[1].post_commands # <<>>

\* C13: when the main batch fails after the device has carried out at least
\* one main command, the result is a failure marked requires_ai_intervention.
C13_PartialMainNeedsReview ==
    (Executed /\ ( \/ trace.main = "failed" /\ trace.at > 1
                   \/ trace.main = "raised" /\ trace.at >= 1 ))
        => (~result.success /\ result.requires_ai_intervention)

\* a main batch whose third command failed
C13_Witness ==
    /\ Executed /\ trace.main = "failed" /\ trace.at = 3
    /\ result.error = "main" /\ result.requires_ai_intervention

\* C14: a rollback that fails, or raises, is recorded in recovery_attempts;
\* the result stays the failure of the main batch, with its error and context.
C14_RollbackFailureRecorded ==
    (Executed /\ trace.rollback \in {"failed", "raised"}) =>
        /\ result.recovery_attempts =
              {IF trace.rollback = "failed" THEN <<"rollback_failed">>
               ELSE <<"rollback_exception">>}
        /\ ~result.success /\ ~result.rollback_performed
        /\ result.error = "main"
        /\ result.error_context = {<<"batch_output", trace.at>>}

\* a rollback batch that the device failed
C14_Witness ==
    /\ Executed /\ trace.main = "failed" /\ trace.rollback = "failed"
    /\ trace.rollback_sent # <<>>
    /\ <<"rollback_failed">> \in result.recovery_attempts

\* C15: when the pre-commands and the main batch succeeded and a post-command
\* fails, the result is a success and carries no error.
C15_PostFailureIsSuccess ==
    (Executed /\ trace.post = "failed") =>
        /\ result.success
        /\ result.error = "" /\ result.error_context = {}

\* a save directive that failed after a main batch that succeeded
C15_Witness ==
    /\ Executed /\ trace.main = "ok" /\ trace.post = "failed"
    /\ result.success /\ result.changes_made = "changes"

\* C16: an apply cancelled while its main batch is in flight has a result
\* marked requires_ai_intervention, and no rollback is attempted.
C16_CancelledNeedsReview ==
    (Executed /\ trace.main = "cancelled") =>
        /\ result.requires_ai_intervention
        /\ trace.rollback = "none"

----------------------------------------------------------------------------
(* Properties of the config store (SpecStore) *)

CommitsOf(device_id) == {i \in DOMAIN log : log[i].file = device_id}

\* C18: after n saves of a device's desired config (and no deletion of its
\* file), whatever the bodies, the version the store holds for the device is
\* n and the log has n commits of the device's file.
C18_VersionCountsSaves ==
    \A d \in Devices :
        (saves[d] > 0 /\ d \notin deleted) =>
            /\ get_desired_config(working, d) # <<>>
            /\ get_desired_config(working, d)[1].version = saves[d]
            /\ Cardinality(CommitsOf(d)) = saves[d]

\* C37: the version a save (a restore from a revision among them) writes for a
\* device is strictly greater than the version of every file of the device
\* that an earlier save wrote, whatever the store did in between.
C37_VersionMonotonic ==
    (returned.op \in {"save", "restore"} /\ returned.stored # <<>>) =>
        LET d == returned.device_id
        IN  \A i \in 1..returned.log_before :
                log[i].tree[d] # NoFile =>
                    returned.written[1].version > log[i].tree[d][1].version

\* C19: a restore that found the device's file at the named revision leaves a
\* stored config with the body stored at that revision and the version that
\* was current plus one, and the log has one new commit, of the device's file.
C19_RestoreIsNewVersion ==
    (returned.op = "restore" /\ returned.stored # <<>>) =>
        LET d == returned.device_id
            now == get_desired_config(working, d)
            then == TreeAt(SubSeq(log, 1, returned.log_before), returned.revision)
        IN  /\ now # <<>> /\ then # <<>> /\ then[1][d] # NoFile
            /\ now[1].config = from_yaml(then[1][d][1], d).config
            /\ returned.existing # <<>> => now[1].version = returned.existing[1].version + 1
            /\ now[1].source = "restore"
            /\ Len(log) = returned.log_before + 1
            /\ log[Len(log)].file = d
            /\ head[d] = working[d]

\* after the saves of V1 and V2, the restore of HEAD~1: V3 with the body of V1
C19_Witness ==
    /\ returned.op = "restore" /\ returned.stored # <<>>
    /\ returned.revision = 1
    /\ saves[returned.device_id] = 3
    /\ returned.stored[1].version = 3
    /\ returned.existing # <<>>
    /\ returned.existing[1].config.text = "Modified"
    /\ working[returned.device_id][1].text = "Original"
    /\ working[returned.device_id][1].version = 3

\* C20: a save whose file, once written, is the file of HEAD adds no commit
\* to the log, and its commit returns None.
C20_NoopSaveNoCommit ==
    (returned.op \in {"save", "restore"} /\ returned.stored # <<>>
        /\ returned.written = returned.head_before)
        => (returned.commit = "none" /\ Len(log) = returned.log_before)

\* a second save that wrote the very file of the first
C20_Witness ==
    /\ returned.op = "save"
    /\ returned.written = returned.head_before
    /\ saves[returned.device_id] = 2
    /\ Len(log) = 1

\* C21: the stored config a save has built (its metadata and any body) is what
\* from_yaml reads back from the YAML to_yaml made of it.
C21_YamlRoundTrip ==
    returned.stored # <<>> =>
        from_yaml(to_yaml(returned.stored[1]), returned.device_id) = returned.stored[1]

----------------------------------------------------------------------------
(* Properties of the parser and the generator (SpecUnit) *)

Returned(fn) == fn_call.fn = fn /\ fn_value # <<>>

\* the ports the range tokens of the port specs name
SpecsPorts(specs) ==
    UNION {RangePorts(specs[i][k]) : <<i, k>> \in
             {<<j, l>> \in (DOMAIN specs) \X (1..(2 * MaxPort)) : l \in DOMAIN specs[j]}}

\* C26: the ports named by the range tokens that the grouping returns for a
\* set S of Brocade ports are the ports of S, no fewer and no more.
C26_GroupingCoversExactly ==
    Returned("group_ports_by_module") => SpecsPorts(fn_value[1]) = fn_call.arg

\* a set with a run, a gap and ports of two modules
C26_Witness ==
    /\ Returned("group_ports_by_module")
    /\ fn_call.arg = {<<1, 1, 1>>, <<1, 1, 2>>, <<1, 1, 4>>, <<1, 2, 3>>}
    /\ Len(fn_value[1]) = 2
    /\ Len(fn_value[1][1]) = 2

\* the (unit, module) pairs the range tokens of a command touch
CommandModules(cmd) ==
    UNION {{<<cmd.ranges[k][1][1], cmd.ranges[k][1][2]>>,
            <<cmd.ranges[k][2][1], cmd.ranges[k][2][2]>>} : k \in DOMAIN cmd.ranges}

OneModuleEach(cmds) ==
    \A i \in DOMAIN cmds :
        cmds[i].op \in {"untagged", "tagged", "no_untagged", "no_tagged"}
            => Cardinality(CommandModules(cmds[i])) = 1

\* C31: every untagged / tagged command (and its no form) that the generator
\* or the Brocade driver emits names ports of one (unit, module) pair only,
\* and no range token starts in one module and ends in another.
C31_OneModulePerCommand ==
    /\ Returned("brocade_vlan_commands") => OneModuleEach(fn_value[1])
    /\ Returned("generate_brocade") =>
          /\ OneModuleEach(fn_value[1].main_commands)
          /\ OneModuleEach(fn_value[1].rollback_commands)
    /\ Returned("create_vlan") => OneModuleEach(fn_value[1])

\* the save directive of a dialect, as the commands it consists of
SaveDirective(device_type) ==
    CASE device_type = "brocade" -> {"write_memory"}
      [] device_type = "openwrt" -> {"uci_commit", "network_reload"}
      [] OTHER                   -> {"copy_running_config"}

\* C32: a generated plan that has a main command has the save directive of
\* the device's dialect among its post-commands.
C32_SaveDirective ==
    (Returned("generate") /\ fn_value[1] # <<>>) =>
        LET plan == fn_value[1][1]
        IN  plan.main_commands # <<>> =>
                SaveDirective(fn_call.arg.device_type)
                    \subseteq {plan.post_commands[i].op : i \in DOMAIN plan.post_commands}

\* the membership differences between a VLAN of the stored config and the
\* VLAN of the device, as the details of the drift items that report them
MembershipDifferences(d, actual) ==
    LET dU == expand_ports(d.untagged_ports)
        dT == expand_ports(d.tagged_ports)
    IN  (IF dU \ actual.untagged_ports # {} THEN {"missing_untagged"} ELSE {})
        \cup (IF dT \ actual.tagged_ports # {} THEN {"missing_tagged"} ELSE {})
        \cup (IF actual.untagged_ports \ dU # {} THEN {"extra_untagged"} ELSE {})
        \cup (IF actual.tagged_ports \ dT # {} THEN {"extra_tagged"} ELSE {})

\* C33: for every VLAN of the stored config that the device has, the report
\* holds an item for each non-empty membership difference and for no other;
\* a report that is in sync means equal memberships for every such VLAN.
C33_DriftItemPerDifference ==
    (Returned("calculate_drift") /\ fn_call.arg.stored # <<>>) =>
        LET vlans == fn_call.arg.stored[1].vlans
            report == fn_value[1]
        IN  \A i \in DOMAIN vlans :
                LET actual == CurrentVlan(fn_call.arg.actual_vlans, vlans[i].key.value)
                IN  actual # NoVlan =>
                      /\ \A detail \in {"missing_untagged", "missing_tagged",
                                         "extra_untagged", "extra_tagged"} :
                            (<<"modified", vlans[i].key.value, detail>> \in report.items)
                                <=> detail \in MembershipDifferences(vlans[i], actual)
                      /\ report.in_sync => MembershipDifferences(vlans[i], actual) = {}

\* C40: for one stored desired state and one set of VLANs read from the
\* device, the drift report is in sync exactly when the diff the config
\* engine computes for them holds no VLAN change.
C40_DriftIsDiff ==
    (Returned("calculate_drift") /\ fn_call.arg.stored # <<>>) =>
        (fn_value[1].in_sync
            <=> calculate(parse(fn_call.arg.stored[1]),
                          fn_call.arg.actual_vlans).vlan_changes = <<>>)

\* the results a batch holds for its k-th command
ResultsFor(results, k) == {results[i] : i \in {j \in DOMAIN results : results[j].command = k}}

\* C34: with stop_on_error set, when the slice of a command is an error,
\* every later command of the batch has a result, all its results are
\* "not executed" failures, and the batch is reported as failed.
C34_StopOnError ==
    (Returned("execute_batch") /\ fn_call.arg.stop_on_error) =>
        LET slices == fn_call.arg.slices
            results == fn_value[1].results
        IN  \A k \in DOMAIN slices :
                (slices[k] = "error" /\ \A j \in 1..(k - 1) : slices[j] # "error") =>
                    /\ ~fn_value[1].overall_success
                    /\ \A j \in (k + 1)..Len(slices) :
                          /\ ResultsFor(results, j) # {}
                          /\ \A r \in ResultsFor(results, j) : ~r.success /\ ~r.executed

\* the first of three commands has an error slice; the other two are marked
C34_Witness ==
    /\ Returned("execute_batch") /\ fn_call.arg.stop_on_error
    /\ fn_call.arg.slices = <<"error", "info", "none">>
    /\ Len(fn_value[1].results) = 3
    /\ ~fn_value[1].results[3].executed

\* C39: a batch returns one result per command, in the order of the
\* commands, and the result of a command whose slice is an error is a failure.
C39_OneResultPerCommand ==
    Returned("execute_batch") =>
        LET slices == fn_call.arg.slices
            results == fn_value[1].results
        IN  /\ Len(results) = Len(slices)
            /\ \A k \in DOMAIN results : results[k].command = k
            /\ \A k \in DOMAIN slices :
                  (slices[k] = "error" /\ k \in DOMAIN results) => ~results[k].success

MembershipRank(cmd) ==
    CASE cmd.op = "no_untagged" -> 1
      [] cmd.op = "no_tagged"   -> 2
      [] cmd.op = "untagged"    -> 3
      [] cmd.op = "tagged"      -> 4
      [] OTHER                  -> 0

\* the ports the commands of one kind name
KindPorts(cmds, kind) ==
    UNION {CommandPorts(cmds[i]) : i \in {j \in DOMAIN cmds : cmds[j].op = kind}}

\* C29: the commands of a modify change are "vlan <id>", then membership
\* commands in the order removes untagged, removes tagged, adds untagged,
\* adds tagged (so every removal precedes every addition), then "exit"; the
\* membership commands name the ports of the change.
C29_RemovesBeforeAdds ==
    Returned("brocade_vlan_commands") =>
        LET change == fn_call.arg
            cmds == fn_value[1]
            inner == 2..(Len(cmds) - 1)
        IN  /\ Len(cmds) >= 2
            /\ cmds[1] = Cmd("vlan", change.vlan_id, NoName, <<>>)
            /\ cmds[Len(cmds)] = Cmd("exit", 0, NoName, <<>>)
            /\ \A i \in inner : MembershipRank(cmds[i]) > 0
            /\ \A i \in inner : \A j \in inner :
                  i < j => MembershipRank(cmds[i]) <= MembershipRank(cmds[j])
            /\ \A i \in inner : \A j \in inner :
                  (MembershipRank(cmds[i]) \in {1, 2} /\ MembershipRank(cmds[j]) \in {3, 4})
                      => i < j
            /\ KindPorts(cmds, "no_untagged") = change.ports_to_remove_untagged
            /\ KindPorts(cmds, "no_tagged") = change.ports_to_remove_tagged
            /\ KindPorts(cmds, "untagged") = change.ports_to_add_untagged
            /\ KindPorts(cmds, "tagged") = change.ports_to_add_tagged

\* a modify that removes and adds both untagged and tagged ports
C29_Witness ==
    /\ Returned("brocade_vlan_commands")
    /\ fn_call.arg.ports_to_remove_untagged # {}
    /\ fn_call.arg.ports_to_remove_tagged # {}
    /\ fn_call.arg.ports_to_add_untagged # {}
    /\ fn_call.arg.ports_to_add_tagged # {}
    /\ Len(fn_value[1]) >= 6

\* the VLANs a diff deletes
DeletedVlans(diff) ==
    {diff.vlan_changes[i].vlan_id :
        i \in {j \in DOMAIN diff.vlan_changes : diff.vlan_changes[j].change_type = "delete"}}

\* C27: the main commands of a plan followed by its rollback commands leave
\* the switch with the VLAN memberships (of every VLAN the plan does not
\* delete) and the port attributes it had before the plan.
C27_RollbackRestores ==
    Returned("generate_brocade") =>
        LET plan == fn_value[1]
            before == fn_call.arg
            cmds == plan.main_commands \o plan.rollback_commands
            vlans == ApplyAll(before.vlans, 0, cmds)
        IN  /\ \A v \in VlanIds \ DeletedVlans(before.diff) :
                  /\ vlans[v].present = before.vlans[v].present
                  /\ vlans[v].untagged = before.vlans[v].untagged
                  /\ vlans[v].tagged = before.vlans[v].tagged
            /\ ApplyAllPorts(before.ports, <<>>, cmds) = before.ports

----------------------------------------------------------------------------
(* Properties of the fan-out (SpecFanout) *)

InScope(t) == taskPc[t] \in {"inside", "exiting"}

\* C4: no two tasks are inside the scope of one device instance at a time.
C4_ExclusiveScope ==
    \A t \in DOMAIN taskDev, u \in DOMAIN taskDev :
        (t # u /\ taskDev[t] = taskDev[u]) => ~(InScope(t) /\ InScope(u))

Raised(t, call) ==
    taskResult[t] # <<>> /\ taskResult[t][1].output = <<"exception", call>>

C38_DeliveredAtMostOnce ==
    \A t \in DOMAIN taskDev : taskCalls[t].sent <= 1

\* the task is the only one of the request on its device
Alone(t) == \A u \in DOMAIN taskDev : u # t => taskDev[u] # taskDev[t]

\* C24: the response is made once every task is done and holds one result per
\* device id of the request, in order; and a task alone on its device finds
\* the transport it opened whatever happened to the other devices.
C24_OneResultPerDevice ==
    /\ response # <<>> =>
          /\ \A t \in DOMAIN taskDev : taskPc[t] = "done"
          /\ DOMAIN response[1] = DOMAIN taskDev
          /\ \A t \in DOMAIN taskDev :
                response[1][t] # <<>> /\ response[1][t][1].device_id = taskDev[t]
    /\ \A t \in DOMAIN taskDev :
          (Alone(t) /\ taskPc[t] = "inside") =>
              (telnet[taskDev[t]] = "open" /\ (taskTry[t] = 0 => connected[taskDev[t]]))

\* one device did not connect, the command ran on the other
C24_Witness ==
    /\ response # <<>> /\ Len(taskDev) = 2
    /\ \E t \in DOMAIN taskDev, u \in DOMAIN taskDev :
          /\ taskDev[t] # taskDev[u]
          /\ response[1][t][1].output = <<"exception", "connect">>
          /\ response[1][u][1].success /\ taskCalls[u].sent = 1

====
